---------------------------- MODULE Spec2Model ----------------------------
(***************************************************************************)
(* Model of the NOTAM curation core of SF50-TOLD/Model-Training:           *)
(*   - filter_relevant_notams.py : the keyword relevance classifier and    *)
(*     the batch filter built on it;                                       *)
(*   - fix_silver_labels.py      : the coordinate / bearing normalizers    *)
(*     and the runway entry sanitizer.                                     *)
(*                                                                         *)
(* A Python str is modelled as a sequence of characters, each character a  *)
(* one-symbol TLA+ string.  Two characters outside ASCII are named:        *)
(*   "y_ring"    U+1E99 LATIN SMALL LETTER Y WITH RING ABOVE               *)
(*   "comb_ring" U+030A COMBINING RING ABOVE                               *)
(* str.upper() maps U+1E99 to the two characters "Y" U+030A.               *)
(***************************************************************************)
EXTENDS Integers, Sequences, FiniteSets, TLC

VARIABLES
    pc,                 \* position of the operation under way
    notam,              \* classify_notam: the record being classified
    result,             \* classify_notam: the returned (is_relevant, reason)
    notams,             \* filter_notams: the input list (the dict objects)
    idx,                \* filter_notams: position of the for loop
    relevant,           \* filter_notams: list of references into notams
    excluded,           \* filter_notams: list of references into notams
    exclusion_reasons,  \* filter_notams: dict reason -> count
    loaded,             \* the input list as it was passed in
    entry,              \* fix_runway_entry: the runway entry (the dict object)
    history,            \* the entry as passed in and as each call returned it
    raw,                \* parse_coordinate: the raw string
    sample,             \* the degrees, minutes, seconds raw was written from
    single,             \* what parse_single_coordinate(raw) returned
    results,            \* what parse_coordinate returned, call after call
    bearing_value,      \* parse_bearing: the argument
    degrees,            \* parse_bearing: the returned value
    record,             \* fix_item: the record (the dict object)
    record_loaded,      \* fix_item: the record as it was passed in
    silver_file,        \* main: the lines of SILVER_FILE on disk
    backup_file,        \* main: the lines of BACKUP_FILE on disk
    items,              \* main: the list of loaded items (the dict objects)
    items_loaded,       \* the items as they were loaded
    fixed_items,        \* main: the list fix_item returned
    issues,             \* main: the three counts of the scan before fixing
    cursor,             \* main: position of the loop over the items under way
    low_confidence_file, \* review_tool: the lines of LOW_CONFIDENCE_FILE on disk
    args,               \* review_tool: the parsed command line
    output_file,        \* review_tool: the file that was loaded and is saved to
    index,              \* review_tool: position of the review loop, from 0
    has_changes,        \* review_tool: the flag of the review loop
    edits,              \* the number of edit commands given so far
    semaphore,          \* process_notams_async: the asyncio.Semaphore
    tasks,              \* process_notams_async: how many tasks are where
    input_file,         \* main_async: the list of NOTAMs in INPUT_FILE
    existing_ids,       \* main_async: the ids read from OUTPUT_FILE
    requests,           \* process_notams_async: the tasks of the run, one a NOTAM
    sent_log,           \* every request sent, with whether its id was recorded then
    runs                \* the number of runs started so far

coord_vars == <<raw, sample, single, results>>
bearing_vars == <<bearing_value, degrees>>
item_vars == <<record, record_loaded>>
main_vars == <<silver_file, backup_file, items, items_loaded, fixed_items, issues, cursor>>

\* the variables of the command-line tools
review_vars == <<low_confidence_file, args, output_file, index, has_changes, edits>>
semaphore_vars == <<semaphore, tasks>>
run_vars == <<input_file, existing_ids, requests, sent_log, runs>>
generator_vars == <<semaphore_vars, run_vars>>
tool_vars == <<main_vars, review_vars, generator_vars>>

vars == <<pc, notam, result, notams, idx, relevant, excluded,
          exclusion_reasons, loaded, entry, history,
          coord_vars, bearing_vars, item_vars, tool_vars>>

(***************************************************************************)
(* Bounds of the model.                                                    *)
(***************************************************************************)
MaxApply == 2
MaxFrags == 4
MaxNotams == 3
MaxLines == 2
MaxEdits == 1
MaxTasks == 22
MaxRuns == 2

(***************************************************************************)
(* Characters and str methods.                                             *)
(***************************************************************************)
UPPERCASE == <<"A","B","C","D","E","F","G","H","I","J","K","L","M",
               "N","O","P","Q","R","S","T","U","V","W","X","Y","Z">>
LOWERCASE == <<"a","b","c","d","e","f","g","h","i","j","k","l","m",
               "n","o","p","q","r","s","t","u","v","w","x","y","z">>
DIGITS == {"0","1","2","3","4","5","6","7","8","9"}

Range(f) == {f[x] : x \in DOMAIN f}

SeqsUpTo(S, n) == UNION { [1..k -> S] : k \in 0..n }

AsciiUpper == Range(UPPERCASE)
AsciiLower == Range(LOWERCASE)

IndexIn(seq, c) == CHOOSE k \in DOMAIN seq : seq[k] = c

\* str.isspace() of one character
IsSpace(c) == c \in {" ", "\n", "\t", "\r"}

\* the regex class \w on str patterns: alphanumerics of any script and "_"
IsWordChar(c) == c \in AsciiUpper \cup AsciiLower \cup DIGITS \cup {"_", "y_ring"}

\* str.upper() of one character (a string: the mapping can lengthen)
UpperChar(c) ==
    IF c \in AsciiLower THEN <<UPPERCASE[IndexIn(LOWERCASE, c)]>>
    ELSE IF c = "y_ring" THEN <<"Y", "comb_ring">>
    ELSE <<c>>

\* str.lower() of one character
LowerChar(c) ==
    IF c \in AsciiUpper THEN <<LOWERCASE[IndexIn(UPPERCASE, c)]>>
    ELSE <<c>>

RECURSIVE str_upper(_)
str_upper(s) == IF s = <<>> THEN <<>> ELSE UpperChar(Head(s)) \o str_upper(Tail(s))

RECURSIVE str_lower(_)
str_lower(s) == IF s = <<>> THEN <<>> ELSE LowerChar(Head(s)) \o str_lower(Tail(s))

\* mutant: the emptiness test without strip()
StripIsEmpty_no_strip(s) == s = <<>>

\* not s.strip(): s is empty or all whitespace
StripIsEmpty(s) == \A p \in DOMAIN s : IsSpace(s[p])

\* kw occurs in s at position p
OccursAt(kw, s, p) ==
    /\ p >= 1
    /\ p + Len(kw) - 1 <= Len(s)
    /\ \A k \in DOMAIN kw : s[p + k - 1] = kw[k]

\* the Python expression  kw in s
Contains(kw, s) == \E p \in DOMAIN s : OccursAt(kw, s, p)

ContainsAny(kws, s) == \E kw \in kws : Contains(kw, s)

(***************************************************************************)
(* filter_relevant_notams.py : keyword tables                              *)
(***************************************************************************)
INCLUSION_KEYWORDS == {
    <<"R","W","Y">>, <<"R","U","N","W","A","Y">>, <<"T","H","R">>,
    <<"T","H","R","E","S","H","O","L","D">>,
    <<"F","I","C","O","N">>, <<"C","O","N","T","A","M","I","N","A","T","E","D">>,
    <<"I","C","E">>, <<"S","N","O","W">>, <<"S","N">>, <<"S","L","U","S","H">>,
    <<"W","A","T","E","R">>, <<"W","E","T">>,
    <<"C","O","M","P","A","C","T","E","D">>, <<"B","R","A","K","I","N","G">>,
    <<"O","B","S","T">>, <<"O","B","S","T","A","C","L","E">>,
    <<"C","R","A","N","E">>, <<"T","O","W","E","R">>, <<"H","T","G">>,
    <<"C","L","S","D">>, <<"C","L","O","S","E","D">>,
    <<"D","S","P","L","C","D">>, <<"D","I","S","P","L","A","C","E","D">> }

NAVIGATION_KEYWORDS == {
    <<"I","L","S">>, <<"V","O","R">>, <<"G","P","S">>, <<"N","D","B">>,
    <<"D","M","E">>, <<"R","N","A","V">>, <<"L","O","C">>, <<"G","S">>,
    <<"P","A","P","I">>, <<"V","A","S","I">> }

PROCEDURE_KEYWORDS == {
    <<"A","P","C","H">>, <<"A","P","P","R","O","A","C","H">>, <<"D","E","P">>,
    <<"D","E","P","A","R","T","U","R","E">>, <<"S","I","D">>,
    <<"S","T","A","R">>, <<"I","A","P">> }

\* the list literal of line 74
PERFORMANCE_KEYWORDS == {
    <<"D","S","P","L","C","D">>, <<"C","L","S","D">>, <<"C","L","O","S","E","D">>,
    <<"F","I","C","O","N">>, <<"C","O","N","T","A","M","I","N","A","T","E","D">> }

\* the list literal of line 96 (it has no CLOSED)
NAV_ONLY_BLOCKERS == {
    <<"D","S","P","L","C","D">>, <<"C","L","S","D">>,
    <<"F","I","C","O","N">>, <<"C","O","N","T","A","M","I","N","A","T","E","D">> }

nav_only_phrases == {
    <<"U","/","S">>, <<"O","T","S">>, <<"N","O","T"," ","A","V","B","L">>,
    <<"I","N","O","P">>, <<"O","N"," ","T","E","S","T">>, <<"M","A","I","N","T">> }

Reasons == {"empty_text", "taxiway_only", "navigation_only",
            "has_relevant_keyword", "no_relevant_keywords"}

(***************************************************************************)
(* TAXIWAY_ONLY_PATTERN = re.compile(r"\bTWY\b(?!.*\bRWY\b)", IGNORECASE)  *)
(***************************************************************************)
\* a literal letter of an IGNORECASE pattern matches either case of it
MatchesIgnoreCase(c, letter) == c = letter \/ <<c>> = LowerChar(letter)

\* \bWORD\b at position p of s, WORD a three-letter literal
WholeWordAt(word, s, p) ==
    /\ p >= 1
    /\ p + Len(word) - 1 <= Len(s)
    /\ \A k \in DOMAIN word : MatchesIgnoreCase(s[p + k - 1], word[k])
    /\ (p = 1 \/ ~IsWordChar(s[p - 1]))
    /\ (p + Len(word) > Len(s) \/ ~IsWordChar(s[p + Len(word)]))

\* "." of a pattern compiled without DOTALL: any character but a newline
DotMatches(c) == c # "\n"

\* the lookahead body  .*\bRWY\b  matches at position q of s
RwyAhead(s, q) ==
    \E r \in q..Len(s) :
        /\ \A k \in q..(r - 1) : DotMatches(s[k])
        /\ WholeWordAt(<<"R","W","Y">>, s, r)

TaxiwayPatternSearch(s) ==
    \E p \in DOMAIN s :
        /\ WholeWordAt(<<"T","W","Y">>, s, p)
        /\ ~RwyAhead(s, p + 3)

(***************************************************************************)
(* filter_relevant_notams.py : the predicates and classify_notam           *)
(***************************************************************************)
\* mutant: the keyword search without upper-casing the text
has_inclusion_keyword_case_sensitive(text) == ContainsAny(INCLUSION_KEYWORDS, text)

has_inclusion_keyword(text) == ContainsAny(INCLUSION_KEYWORDS, str_upper(text))

has_runway_reference(text) ==
    LET text_upper == str_upper(text)
    IN  Contains(<<"R","W","Y">>, text_upper) \/ Contains(<<"R","U","N","W","A","Y">>, text_upper)

\* mutant: the first closure test with the list of line 96, which lacks CLOSED
is_navigation_only_closed_dropped(text) ==
    LET text_upper == str_upper(text)
        has_nav == ContainsAny(NAVIGATION_KEYWORDS, text_upper)
        has_proc == ContainsAny(PROCEDURE_KEYWORDS, text_upper)
    IN  IF has_runway_reference(text_upper) /\ ContainsAny(NAV_ONLY_BLOCKERS, text_upper)
        THEN FALSE
        ELSE IF has_nav \/ has_proc
        THEN IF ~has_runway_reference(text_upper)
             THEN TRUE
             ELSE /\ ContainsAny(nav_only_phrases, text_upper)
                  /\ ~ContainsAny(NAV_ONLY_BLOCKERS, text_upper)
        ELSE FALSE

\* mutant: the status phrase demanded of texts without a runway reference too
is_navigation_only_phrase_always(text) ==
    LET text_upper == str_upper(text)
        has_nav == ContainsAny(NAVIGATION_KEYWORDS, text_upper)
        has_proc == ContainsAny(PROCEDURE_KEYWORDS, text_upper)
    IN  IF has_runway_reference(text_upper) /\ ContainsAny(PERFORMANCE_KEYWORDS, text_upper)
        THEN FALSE
        ELSE IF has_nav \/ has_proc
        THEN /\ ContainsAny(nav_only_phrases, text_upper)
             /\ ~ContainsAny(NAV_ONLY_BLOCKERS, text_upper)
        ELSE FALSE

is_navigation_only(text) ==
    LET text_upper == str_upper(text)
        has_nav == ContainsAny(NAVIGATION_KEYWORDS, text_upper)
        has_proc == ContainsAny(PROCEDURE_KEYWORDS, text_upper)
    IN  IF has_runway_reference(text_upper) /\ ContainsAny(PERFORMANCE_KEYWORDS, text_upper)
        THEN FALSE
        ELSE IF has_nav \/ has_proc
        THEN IF ~has_runway_reference(text_upper)
             THEN TRUE
             ELSE /\ ContainsAny(nav_only_phrases, text_upper)
                  /\ ~ContainsAny(NAV_ONLY_BLOCKERS, text_upper)
        ELSE FALSE

is_taxiway_only(text) == TaxiwayPatternSearch(text)

\* A Python dict is a function whose DOMAIN is its set of keys.
\* d.get(k, default)
DictGet(d, k, default) == IF k \in DOMAIN d THEN d[k] ELSE default

\* d[k] = v
DictSet(d, k, v) == [x \in DOMAIN d \cup {k} |-> IF x = k THEN v ELSE d[x]]

\* notam.get("notam_text", "")
NotamText(n) == DictGet(n, "notam_text", <<>>)

\* mutant: the inclusion keywords tested before the two exclusion rules
classify_notam_keyword_first(n) ==
    LET text == NotamText(n)
    IN  IF StripIsEmpty(text) THEN <<FALSE, "empty_text">>
        ELSE IF has_inclusion_keyword(text) THEN <<TRUE, "has_relevant_keyword">>
        ELSE IF is_taxiway_only(text) THEN <<FALSE, "taxiway_only">>
        ELSE IF is_navigation_only(text) THEN <<FALSE, "navigation_only">>
        ELSE <<FALSE, "no_relevant_keywords">>

classify_notam(n) ==
    LET text == NotamText(n)
    IN  IF StripIsEmpty(text) THEN <<FALSE, "empty_text">>
        ELSE IF is_taxiway_only(text) THEN <<FALSE, "taxiway_only">>
        ELSE IF is_navigation_only(text) THEN <<FALSE, "navigation_only">>
        ELSE IF has_inclusion_keyword(text) THEN <<TRUE, "has_relevant_keyword">>
        ELSE <<FALSE, "no_relevant_keywords">>

(***************************************************************************)
(* Inputs: NOTAM texts built from fragments of NOTAM vocabulary.           *)
(***************************************************************************)
Frags == { <<"T","W","Y">>, <<"R","W","Y">>, <<" ">>, <<"\n">>, <<"A">>,
           <<"I","L","S">>, <<"C","L","S","D">>, <<"C","L","O","S","E","D">>,
           <<"U","/","S">>, <<"t","w","y">>, <<"r","w","y">>, <<"y_ring">> }

RECURSIVE Flatten(_)
Flatten(fs) == IF fs = <<>> THEN <<>> ELSE Head(fs) \o Flatten(Tail(fs))

FragTexts == { Flatten(fs) : fs \in UNION { [1..n -> Frags] : n \in 0..MaxFrags } }

\* the example texts of the specification
Ex_ILS_RWY_US == <<"I","L","S"," ","R","W","Y"," ","2","7"," ","U","/","S">>
Ex_ILS_RWY_CLSD == <<"I","L","S"," ","R","W","Y"," ","2","7"," ","C","L","S","D">>
Ex_TWY_RWY_CLSD == <<"T","W","Y"," ","A"," ","C","L","S","D",","," ","R","W","Y"," ","0","9"," ","C","L","S","D">>
Ex_TWY_NL_RWY == <<"T","W","Y"," ","A","\n","R","W","Y"," ","0","9"," ","C","L","S","D">>
Ex_Blank == <<" "," "," ">>

ExampleTexts == { Ex_ILS_RWY_US, Ex_ILS_RWY_CLSD, Ex_TWY_RWY_CLSD, Ex_TWY_NL_RWY, Ex_Blank }

Texts == FragTexts \cup ExampleTexts

None == "<None>"

EmptyDict == [k \in {} |-> 0]

\* the variables of an operation that is not under way
NoCoordinate == raw = <<>> /\ sample = [fmt |-> "none"] /\ single = None /\ results = <<>>
NoBearing == bearing_value = None /\ degrees = None
NoItem == record = EmptyDict /\ record_loaded = EmptyDict
NoFile == [exists |-> FALSE, lines |-> <<>>]
NoMain ==
    /\ silver_file = NoFile /\ backup_file = NoFile
    /\ items = <<>> /\ items_loaded = <<>> /\ fixed_items = <<>>
    /\ issues = <<0, 0, 0>> /\ cursor = 0
NoReview ==
    /\ low_confidence_file = NoFile /\ args = [low_confidence |-> FALSE]
    /\ output_file = None /\ index = 0 /\ has_changes = FALSE /\ edits = 0
NoSemaphore == semaphore = None /\ tasks = None
NoRuns ==
    /\ input_file = <<>> /\ existing_ids = {} /\ requests = <<>>
    /\ sent_log = <<>> /\ runs = 0
NoGenerator == NoSemaphore /\ NoRuns
NoTools == NoMain /\ NoReview /\ NoGenerator

\* the records filter_notams is run on: one text for every reason, the spec's
\* examples among them, and a record with no notam_text key
FilterTexts == { <<>>, <<" ">>, <<"T","W","Y">>, <<"I","L","S">>,
                 <<"R","W","Y"," ","C","L","S","D">>, <<"A">>,
                 <<"I","L","S"," ","R","W","Y"," ","U","/","S">> }

FilterRecords ==
    { [notam_id |-> "N1", icao_location |-> "KJFK", notam_text |-> t] : t \in FilterTexts }
    \cup { [notam_id |-> "N1", icao_location |-> "KJFK"] }


(***************************************************************************)
(* Python values.  A value of an entry is None, a str, an int or a float;  *)
(* a float of the model is m * 10^e with m not divisible by 10, or one of  *)
(* the special floats inf, -inf and nan.  The model has one zero: 0.0 and  *)
(* -0.0 are equal and both falsy in Python.                                *)
(***************************************************************************)
PyNone == [t |-> "None"]
PyStr(chars) == [t |-> "str", s |-> chars]
PyInt(n) == [t |-> "int", n |-> n]

RECURSIVE NormFloat(_, _)
NormFloat(m, e) ==
    IF m = 0 THEN [t |-> "float", m |-> 0, e |-> 0]
    ELSE IF m % 10 = 0 THEN NormFloat(m \div 10, e + 1)
    ELSE [t |-> "float", m |-> m, e |-> e]

PyFloat(m, e) == NormFloat(m, e)

SpecialFloat(name) == [t |-> "float", special |-> name]
IsSpecial(v) == "special" \in DOMAIN v

IsNum(v) == v.t \in {"int", "float"}

\* float(v) of an int or a float
ToFloat(v) == IF v.t = "int" THEN NormFloat(v.n, 0) ELSE v

\* bool(v)
Truthy(v) ==
    CASE v.t = "None" -> FALSE
      [] v.t = "str" -> v.s # <<>>
      [] v.t = "int" -> v.n # 0
      [] v.t = "float" -> IsSpecial(v) \/ v.m # 0

\* v == w of Python for the values of a dict: an int and a float of the same
\* value are equal, and an object equals itself (float(v) of a float is v
\* itself, so a nan kept in an entry is the same object)
PyEq(v, w) ==
    IF IsNum(v) /\ IsNum(w) THEN ToFloat(v) = ToFloat(w) ELSE v = w

\* s.strip()
RECURSIVE LStrip(_)
LStrip(s) == IF s # <<>> /\ IsSpace(Head(s)) THEN LStrip(Tail(s)) ELSE s

RECURSIVE RStrip(_)
RStrip(s) == IF s # <<>> /\ IsSpace(s[Len(s)]) THEN RStrip(SubSeq(s, 1, Len(s) - 1)) ELSE s

str_strip(s) == RStrip(LStrip(s))

\* s.replace(old, new), old and new single characters or new empty
RECURSIVE str_replace(_, _, _)
str_replace(s, old, new) ==
    IF s = <<>> THEN <<>>
    ELSE (IF Head(s) = old THEN new ELSE <<Head(s)>>) \o str_replace(Tail(s), old, new)

\* s.split(sep)[0]: the text before the first occurrence of sep
FirstPart(s, sep) ==
    LET first == CHOOSE p \in DOMAIN s :
                    OccursAt(sep, s, p) /\ \A q \in 1..(p - 1) : ~OccursAt(sep, s, q)
    IN  SubSeq(s, 1, first - 1)

\* int(digits)
RECURSIVE DigitsToNat(_)
DigitsToNat(ds) ==
    IF ds = <<>> THEN 0
    ELSE 10 * DigitsToNat(SubSeq(ds, 1, Len(ds) - 1))
         + (CHOOSE d \in 0..9 : <<"0","1","2","3","4","5","6","7","8","9">>[d + 1] = ds[Len(ds)])

\* str(n) of a natural number
RECURSIVE NatToDigits(_)
NatToDigits(n) ==
    IF n < 10 THEN << <<"0","1","2","3","4","5","6","7","8","9">>[n + 1] >>
    ELSE NatToDigits(n \div 10) \o << <<"0","1","2","3","4","5","6","7","8","9">>[(n % 10) + 1] >>

RECURSIVE ZeroPad(_, _)
ZeroPad(ds, width) == IF Len(ds) >= width THEN ds ELSE ZeroPad(<<"0">> \o ds, width)

RECURSIVE Pow10(_)
Pow10(k) == IF k = 0 THEN 1 ELSE 10 * Pow10(k - 1)

(***************************************************************************)
(* The regular expressions of fix_silver_labels.py.  A pattern is a        *)
(* sequence of items: a character class with a greedy repetition count,    *)
(* the opening or closing parenthesis of a capture group, or an optional   *)
(* non-capturing group.  ReMatchAt is re.match: anchored at the start, not *)
(* at the end, greedy, backtracking to the first alternative that matches. *)
(***************************************************************************)
DEG == "deg"            \* U+00B0 DEGREE SIGN
APOS == "'"
DQUOTE == "dquote"      \* U+0022 QUOTATION MARK
DPRIME == "dprime"      \* U+2033 DOUBLE PRIME

Unbounded == 1000

Cls(set, lo, hi) == [k |-> "cls", c |-> set, lo |-> lo, hi |-> hi]
Lit(c) == Cls({c}, 1, 1)
Open(g) == [k |-> "open", g |-> g]
Close(g) == [k |-> "close", g |-> g]
Opt(sub) == [k |-> "opt", sub |-> sub]

NoMatch == [ok |-> FALSE]

\* the number of characters of class set at pos, pos + 1, ..., at most hi
RECURSIVE RunLen(_, _, _, _)
RunLen(set, s, pos, hi) ==
    IF hi = 0 \/ pos > Len(s) \/ s[pos] \notin set THEN 0
    ELSE 1 + RunLen(set, s, pos + 1, hi - 1)

RECURSIVE ReMatchAt(_, _, _)
RECURSIVE TryCounts(_, _, _, _, _)

\* a greedy repetition: the longest count c >= lo after which the rest matches
TryCounts(rest, s, pos, c, lo) ==
    IF c < lo THEN NoMatch
    ELSE LET r == ReMatchAt(rest, s, pos + c)
         IN  IF r.ok THEN r ELSE TryCounts(rest, s, pos, c - 1, lo)

ReMatchAt(pattern, s, pos) ==
    IF pattern = <<>> THEN [ok |-> TRUE, st |-> <<>>, en |-> <<>>, end |-> pos]
    ELSE
      LET it == Head(pattern)
          rest == Tail(pattern)
      IN  CASE it.k = "open" ->
                 LET r == ReMatchAt(rest, s, pos)
                 IN  IF r.ok THEN [r EXCEPT !.st = (it.g :> pos) @@ r.st] ELSE NoMatch
            [] it.k = "close" ->
                 LET r == ReMatchAt(rest, s, pos)
                 IN  IF r.ok THEN [r EXCEPT !.en = (it.g :> pos) @@ r.en] ELSE NoMatch
            [] it.k = "opt" ->
                 LET r == ReMatchAt(it.sub \o rest, s, pos)
                 IN  IF r.ok THEN r ELSE ReMatchAt(rest, s, pos)
            [] it.k = "end" ->
                 IF pos = Len(s) + 1 THEN ReMatchAt(rest, s, pos) ELSE NoMatch
            [] it.k = "cls" ->
                 TryCounts(rest, s, pos, RunLen(it.c, s, pos, it.hi), it.lo)

re_match(pattern, s) == ReMatchAt(pattern, s, 1)

\* match.group(g)
Group(m, s, g) == SubSeq(s, m.st[g], m.en[g] - 1)

D(lo, hi) == Cls(DIGITS, lo, hi)
WS(lo, hi) == Cls({" ", "\n", "\t", "\r"}, lo, hi)
Cap(g, sub) == <<Open(g)>> \o sub \o <<Close(g)>>
FRACTION == Opt(<<Lit("."), D(1, Unbounded)>>)

\* r"-?\d+\.\d+,\s*-?\d+\.\d+"
DECIMAL_PATTERN ==
    <<Cls({"-"}, 0, 1), D(1, Unbounded), Lit("."), D(1, Unbounded), Lit(","), WS(0, Unbounded),
      Cls({"-"}, 0, 1), D(1, Unbounded), Lit("."), D(1, Unbounded)>>

\* r"(\d{2})(\d{2})(\d{2}(?:\.\d+)?)([NS])\s*(\d{2,3})(\d{2})(\d{2}(?:\.\d+)?)([EW])"
PATTERN_DDMMSS ==
    Cap(1, <<D(2, 2)>>) \o Cap(2, <<D(2, 2)>>) \o Cap(3, <<D(2, 2), FRACTION>>)
    \o Cap(4, <<Cls({"N", "S"}, 1, 1)>>) \o <<WS(0, Unbounded)>>
    \o Cap(5, <<D(2, 3)>>) \o Cap(6, <<D(2, 2)>>) \o Cap(7, <<D(2, 2), FRACTION>>)
    \o Cap(8, <<Cls({"E", "W"}, 1, 1)>>)

\* r"(\d{2})(\d{2})([NS])\s*(\d{2,3})(\d{2})([EW])"
PATTERN_DDMM ==
    Cap(1, <<D(2, 2)>>) \o Cap(2, <<D(2, 2)>>) \o Cap(3, <<Cls({"N", "S"}, 1, 1)>>)
    \o <<WS(0, Unbounded)>>
    \o Cap(4, <<D(2, 3)>>) \o Cap(5, <<D(2, 2)>>) \o Cap(6, <<Cls({"E", "W"}, 1, 1)>>)

\* r"(\d+)[°](\d+)['\s]*([NS])\s*(\d+)[°](\d+)['\s]*([EW])"
PATTERN_DM_SYMBOLS ==
    Cap(1, <<D(1, Unbounded)>>) \o <<Lit(DEG)>> \o Cap(2, <<D(1, Unbounded)>>)
    \o <<Cls({APOS, " ", "\n", "\t", "\r"}, 0, Unbounded)>>
    \o Cap(3, <<Cls({"N", "S"}, 1, 1)>>) \o <<WS(0, Unbounded)>>
    \o Cap(4, <<D(1, Unbounded)>>) \o <<Lit(DEG)>> \o Cap(5, <<D(1, Unbounded)>>)
    \o <<Cls({APOS, " ", "\n", "\t", "\r"}, 0, Unbounded)>>
    \o Cap(6, <<Cls({"E", "W"}, 1, 1)>>)

\* r"([NS])(\d+)\s+(\d+)\s+(\d+(?:\.\d+)?)\s*/\s*([EW])(\d+)\s+(\d+)\s+(\d+(?:\.\d+)?)"
PATTERN_PREFIX_SPACED ==
    Cap(1, <<Cls({"N", "S"}, 1, 1)>>) \o Cap(2, <<D(1, Unbounded)>>) \o <<WS(1, Unbounded)>>
    \o Cap(3, <<D(1, Unbounded)>>) \o <<WS(1, Unbounded)>>
    \o Cap(4, <<D(1, Unbounded), FRACTION>>)
    \o <<WS(0, Unbounded), Lit("/"), WS(0, Unbounded)>>
    \o Cap(5, <<Cls({"E", "W"}, 1, 1)>>) \o Cap(6, <<D(1, Unbounded)>>) \o <<WS(1, Unbounded)>>
    \o Cap(7, <<D(1, Unbounded)>>) \o <<WS(1, Unbounded)>>
    \o Cap(8, <<D(1, Unbounded), FRACTION>>)

\* r"(\d+)°(\d+)'(\d+(?:\.\d+)?)[\"″]?\s*([NS])[,\s]+(\d+)°(\d+)'(\d+(?:\.\d+)?)[\"″]?\s*([EW])"
PATTERN_DMS_SYMBOLS ==
    Cap(1, <<D(1, Unbounded)>>) \o <<Lit(DEG)>> \o Cap(2, <<D(1, Unbounded)>>) \o <<Lit(APOS)>>
    \o Cap(3, <<D(1, Unbounded), FRACTION>>)
    \o <<Cls({DQUOTE, DPRIME}, 0, 1), WS(0, Unbounded)>>
    \o Cap(4, <<Cls({"N", "S"}, 1, 1)>>)
    \o <<Cls({",", " ", "\n", "\t", "\r"}, 1, Unbounded)>>
    \o Cap(5, <<D(1, Unbounded)>>) \o <<Lit(DEG)>> \o Cap(6, <<D(1, Unbounded)>>) \o <<Lit(APOS)>>
    \o Cap(7, <<D(1, Unbounded), FRACTION>>)
    \o <<Cls({DQUOTE, DPRIME}, 0, 1), WS(0, Unbounded)>>
    \o Cap(8, <<Cls({"E", "W"}, 1, 1)>>)

\* r"([NS])(\d{2})(\d{2})(\d{2}(?:\.\d+)?)\s+([EW])(\d{2,3})(\d{2})(\d{2}(?:\.\d+)?)"
PATTERN_PREFIX_COMPACT ==
    Cap(1, <<Cls({"N", "S"}, 1, 1)>>) \o Cap(2, <<D(2, 2)>>) \o Cap(3, <<D(2, 2)>>)
    \o Cap(4, <<D(2, 2), FRACTION>>) \o <<WS(1, Unbounded)>>
    \o Cap(5, <<Cls({"E", "W"}, 1, 1)>>) \o Cap(6, <<D(2, 3)>>) \o Cap(7, <<D(2, 2)>>)
    \o Cap(8, <<D(2, 2), FRACTION>>)

\* r"(\d{2})(\d{2})(\d{3})([NS])(\d{3})(\d{2})(\d{2,3})([EW])"
PATTERN_7_8_DIGITS ==
    Cap(1, <<D(2, 2)>>) \o Cap(2, <<D(2, 2)>>) \o Cap(3, <<D(3, 3)>>)
    \o Cap(4, <<Cls({"N", "S"}, 1, 1)>>)
    \o Cap(5, <<D(3, 3)>>) \o Cap(6, <<D(2, 2)>>) \o Cap(7, <<D(2, 3)>>)
    \o Cap(8, <<Cls({"E", "W"}, 1, 1)>>)

(***************************************************************************)
(* fix_silver_labels.py : parse_single_coordinate                          *)
(***************************************************************************)
\* float(text) of a seconds group: its integer part and its fraction digits
SecondsOf(txt) ==
    LET dot == { p \in DOMAIN txt : txt[p] = "." }
    IN  IF dot = {} THEN [int |-> DigitsToNat(txt), frac |-> <<>>]
        ELSE LET p == CHOOSE q \in dot : TRUE
             IN  [int |-> DigitsToNat(SubSeq(txt, 1, p - 1)),
                  frac |-> SubSeq(txt, p + 1, Len(txt))]

\* the longest fraction of a seconds group for which the double computed by
\* the code and the exact quotient computed here are formatted alike
MaxSecondsDecimals == 5

\* f"{v:.6f}" of v = deg + min / 60 + sec / 3600, negated when neg: v in
\* millionths of a degree is deg * 10^6 + min * 50000 / 3 + sec * 2500 / 9,
\* rounded to the nearest integer.  An exact tie, or a fraction longer than
\* MaxSecondsDecimals, has no value here: the double decides it.
FormatDegrees6(deg, min, sec, neg) ==
    LET j == Len(sec.frac)
        den == 9 * Pow10(j)
        num == ((min * 50000) % 3) * 3 * Pow10(j)
               + ((sec.int * 2500) % 9) * Pow10(j)
               + DigitsToNat(sec.frac) * 2500
        round == IF j <= MaxSecondsDecimals /\ 2 * (num % den) # den
                 THEN (IF 2 * (num % den) > den THEN 1 ELSE 0)
                 ELSE CHOOSE x \in {} : TRUE
        micro == deg * 1000000 + (min * 50000) \div 3 + (sec.int * 2500) \div 9
                 + num \div den + round
    IN  (IF neg THEN <<"-">> ELSE <<>>)
        \o NatToDigits(micro \div 1000000) \o <<".">>
        \o ZeroPad(NatToDigits(micro % 1000000), 6)

\* mutant: the decimals cut off after the fourth, not rounded
FormatDegrees4_truncated(deg, min, neg) ==
    LET tenk == deg * 10000 + (min * 1000) \div 6
    IN  (IF neg THEN <<"-">> ELSE <<>>)
        \o NatToDigits(tenk \div 10000) \o <<".">>
        \o ZeroPad(NatToDigits(tenk % 10000), 4)

\* f"{v:.4f}" of v = deg + min / 60, negated when neg
FormatDegrees4(deg, min, neg) ==
    LET tenk == deg * 10000 + (min * 1000 + 3) \div 6
    IN  (IF neg THEN <<"-">> ELSE <<>>)
        \o NatToDigits(tenk \div 10000) \o <<".">>
        \o ZeroPad(NatToDigits(tenk % 10000), 4)

\* the body of a degrees-minutes-seconds branch: groups deg, min, sec, dir of
\* the latitude and of the longitude, and f"{lat:.6f}, {lon:.6f}"
ConvertDMS(m, s, lat, lon) ==
    FormatDegrees6(DigitsToNat(Group(m, s, lat[1])), DigitsToNat(Group(m, s, lat[2])),
                   SecondsOf(Group(m, s, lat[3])), Group(m, s, lat[4]) = <<"S">>)
    \o <<",", " ">> \o
    FormatDegrees6(DigitsToNat(Group(m, s, lon[1])), DigitsToNat(Group(m, s, lon[2])),
                   SecondsOf(Group(m, s, lon[3])), Group(m, s, lon[4]) = <<"W">>)

\* mutant: f"{lat:.4f} - {lon:.4f}"
ConvertDM_dash(m, s) ==
    FormatDegrees4(DigitsToNat(Group(m, s, 1)), DigitsToNat(Group(m, s, 2)),
                   Group(m, s, 3) = <<"S">>)
    \o <<" ", "-", " ">> \o
    FormatDegrees4(DigitsToNat(Group(m, s, 4)), DigitsToNat(Group(m, s, 5)),
                   Group(m, s, 6) = <<"W">>)

\* the body of a degrees-minutes branch, f"{lat:.4f}, {lon:.4f}"
ConvertDM(m, s) ==
    FormatDegrees4(DigitsToNat(Group(m, s, 1)), DigitsToNat(Group(m, s, 2)),
                   Group(m, s, 3) = <<"S">>)
    \o <<",", " ">> \o
    FormatDegrees4(DigitsToNat(Group(m, s, 4)), DigitsToNat(Group(m, s, 5)),
                   Group(m, s, 6) = <<"W">>)

\* mutant: int(group) / 10 whatever the length of the group
PackedSeconds_always_tenths(txt) ==
    [int |-> DigitsToNat(txt) \div 10, frac |-> SubSeq(txt, Len(txt), Len(txt))]

\* int(group) / 10 of a three-digit seconds group, int(group) of a shorter one
PackedSeconds(txt) ==
    IF Len(txt) = 3
    THEN [int |-> DigitsToNat(SubSeq(txt, 1, 2)), frac |-> SubSeq(txt, 3, 3)]
    ELSE [int |-> DigitsToNat(txt), frac |-> <<>>]

\* the body of the last branch
Convert78(m, s) ==
    FormatDegrees6(DigitsToNat(Group(m, s, 1)), DigitsToNat(Group(m, s, 2)),
                   PackedSeconds(Group(m, s, 3)), Group(m, s, 4) = <<"S">>)
    \o <<",", " ">> \o
    FormatDegrees6(DigitsToNat(Group(m, s, 5)), DigitsToNat(Group(m, s, 6)),
                   PackedSeconds(Group(m, s, 7)), Group(m, s, 8) = <<"W">>)

SuffixGroups == << <<1, 2, 3, 4>>, <<5, 6, 7, 8>> >>
PrefixGroups == << <<2, 3, 4, 1>>, <<6, 7, 8, 5>> >>

\* a branch  match = re.match(...); if match: ... return f"..."  : the
\* returned string when the pattern matches, else what the code after the
\* branch returns
BranchDMS(match, s, lat, lon, otherwise) ==
    IF match.ok THEN PyStr(ConvertDMS(match, s, lat, lon)) ELSE otherwise

BranchDM(match, s, otherwise) ==
    IF match.ok THEN PyStr(ConvertDM(match, s)) ELSE otherwise

Branch78(match, s, otherwise) ==
    IF match.ok THEN PyStr(Convert78(match, s)) ELSE otherwise

\* coord_str.replace(" ", "").replace("/", "").upper()
Clean(coord_str) == str_upper(str_replace(str_replace(coord_str, " ", <<>>), "/", <<>>))

\* mutant: pattern b is not tried
TryPatterns_without_b(coord_str, clean, upper, normalized) ==
    IF re_match(DECIMAL_PATTERN, coord_str).ok THEN PyStr(coord_str)
    ELSE
    BranchDMS(re_match(PATTERN_DDMMSS, clean), clean, SuffixGroups[1], SuffixGroups[2],
    BranchDM(re_match(PATTERN_DM_SYMBOLS, upper), upper,
    BranchDMS(re_match(PATTERN_PREFIX_SPACED, upper), upper, PrefixGroups[1], PrefixGroups[2],
    BranchDMS(re_match(PATTERN_DMS_SYMBOLS, coord_str), coord_str, SuffixGroups[1], SuffixGroups[2],
    BranchDMS(re_match(PATTERN_PREFIX_COMPACT, upper), upper, PrefixGroups[1], PrefixGroups[2],
    BranchDMS(re_match(PATTERN_DDMMSS, normalized), normalized, SuffixGroups[1], SuffixGroups[2],
    Branch78(re_match(PATTERN_7_8_DIGITS, clean), clean,
    PyNone)))))))

\* the body of parse_single_coordinate from line 36 on: coord_str is the
\* stripped string, upper is coord_str.upper()
TryPatterns(coord_str, clean, upper, normalized) ==
    IF re_match(DECIMAL_PATTERN, coord_str).ok THEN PyStr(coord_str)
    ELSE
    BranchDMS(re_match(PATTERN_DDMMSS, clean), clean, SuffixGroups[1], SuffixGroups[2],
    BranchDM(re_match(PATTERN_DDMM, clean), clean,
    BranchDM(re_match(PATTERN_DM_SYMBOLS, upper), upper,
    BranchDMS(re_match(PATTERN_PREFIX_SPACED, upper), upper, PrefixGroups[1], PrefixGroups[2],
    BranchDMS(re_match(PATTERN_DMS_SYMBOLS, coord_str), coord_str, SuffixGroups[1], SuffixGroups[2],
    BranchDMS(re_match(PATTERN_PREFIX_COMPACT, upper), upper, PrefixGroups[1], PrefixGroups[2],
    BranchDMS(re_match(PATTERN_DDMMSS, normalized), normalized, SuffixGroups[1], SuffixGroups[2],
    Branch78(re_match(PATTERN_7_8_DIGITS, clean), clean,
    PyNone))))))))

\* mutant: pattern g is applied to the text with its commas
ParseStripped_commas_kept(coord_str) ==
    TryPatterns(coord_str, Clean(coord_str), str_upper(coord_str), Clean(coord_str))

ParseStripped(coord_str) ==
    TryPatterns(coord_str, Clean(coord_str), str_upper(coord_str),
                str_replace(Clean(coord_str), ",", <<".">>))

\* coord_str is a str (a sequence of characters); the result is a Python value
parse_single_coordinate(coord_str) ==
    IF coord_str = <<>> THEN PyNone ELSE ParseStripped(str_strip(coord_str))

(***************************************************************************)
(* fix_silver_labels.py : parse_coordinate                                 *)
(***************************************************************************)
Raise(exc) == [t |-> "raise", exc |-> exc]

separators == << <<" ", "-", " ">>, <<",", " ">>, <<",">> >>

\* mutant: return value, whatever it is
ReturnIfTruthy_always(value, otherwise) == value

\* if value: return value, else what the code after it returns
ReturnIfTruthy(value, otherwise) == IF Truthy(value) THEN value ELSE otherwise

\* the for loop over separators from separator number k on, then the tail
RECURSIVE ParseFromSeparator(_, _)
ParseFromSeparator(coord_str, k) ==
    IF k > Len(separators)
    THEN ReturnIfTruthy(parse_single_coordinate(coord_str), PyStr(coord_str))
    ELSE IF Contains(separators[k], coord_str)
    THEN ReturnIfTruthy(parse_single_coordinate(str_strip(FirstPart(coord_str, separators[k]))),
                        ParseFromSeparator(coord_str, k + 1))
    ELSE ParseFromSeparator(coord_str, k + 1)

\* mutant: without the loop over the separators
parse_coordinate_whole(coord) ==
    IF ~Truthy(coord) THEN PyNone
    ELSE IF coord.t # "str" THEN Raise("TypeError")
    ELSE IF re_match(DECIMAL_PATTERN, coord.s).ok THEN coord
    ELSE ParseFromSeparator(coord.s, Len(separators) + 1)

\* coord is a Python value; re.match on a value that is no str raises TypeError
parse_coordinate(coord) ==
    IF ~Truthy(coord) THEN PyNone
    ELSE IF coord.t # "str" THEN Raise("TypeError")
    ELSE IF re_match(DECIMAL_PATTERN, coord.s).ok THEN coord
    ELSE ParseFromSeparator(coord.s, 1)

(***************************************************************************)
(* fix_silver_labels.py : parse_bearing                                    *)
(***************************************************************************)
End == [k |-> "end"]

SIGN == Cls({"-", "+"}, 0, 1)
EXPONENT == Opt(<<Lit("E")>> \o Cap(4, <<SIGN>>) \o Cap(5, <<D(1, Unbounded)>>))

\* the decimal literals float() accepts, on an upper-cased stripped string
FLOAT_DIGITS_FIRST ==
    Cap(1, <<SIGN>>) \o Cap(2, <<D(1, Unbounded)>>)
    \o <<Opt(<<Lit(".")>> \o Cap(3, <<D(0, Unbounded)>>))>> \o <<EXPONENT, End>>

FLOAT_DOT_FIRST ==
    Cap(1, <<SIGN>>) \o <<Lit(".")>> \o Cap(3, <<D(1, Unbounded)>>) \o <<EXPONENT, End>>

GroupOr(m, s, g, default) == IF g \in DOMAIN m.st THEN Group(m, s, g) ELSE default

FloatOfMatch(m, s) ==
    LET int_digits == GroupOr(m, s, 2, <<>>)
        frac_digits == GroupOr(m, s, 3, <<>>)
        exp == DigitsToNat(GroupOr(m, s, 5, <<>>))
              * (IF GroupOr(m, s, 4, <<>>) = <<"-">> THEN -1 ELSE 1)
        mant == DigitsToNat(int_digits \o frac_digits)
              * (IF Group(m, s, 1) = <<"-">> THEN -1 ELSE 1)
    IN  NormFloat(mant, exp - Len(frac_digits))

\* float() of "INF", "INFINITY" and "NAN" with an optional sign
FloatOfWord(s) ==
    LET signed == s # <<>> /\ s[1] \in {"+", "-"}
        body == IF signed THEN Tail(s) ELSE s
    IN  IF body \in { <<"I","N","F">>, <<"I","N","F","I","N","I","T","Y">> }
        THEN SpecialFloat(IF signed /\ s[1] = "-" THEN "-inf" ELSE "inf")
        ELSE IF body = <<"N","A","N">> THEN SpecialFloat("nan")
        ELSE PyNone

cardinal_map ==
    (<<"N">> :> PyInt(0)) @@
    (<<"N","N","E">> :> PyFloat(225, -1)) @@
    (<<"N","E">> :> PyInt(45)) @@
    (<<"E","N","E">> :> PyFloat(675, -1)) @@
    (<<"E">> :> PyInt(90)) @@
    (<<"E","S","E">> :> PyFloat(1125, -1)) @@
    (<<"S","E">> :> PyInt(135)) @@
    (<<"S","S","E">> :> PyFloat(1575, -1)) @@
    (<<"S">> :> PyInt(180)) @@
    (<<"S","S","W">> :> PyFloat(2025, -1)) @@
    (<<"S","W">> :> PyInt(225)) @@
    (<<"W","S","W">> :> PyFloat(2475, -1)) @@
    (<<"W">> :> PyInt(270)) @@
    (<<"W","N","W">> :> PyFloat(2925, -1)) @@
    (<<"N","W">> :> PyInt(315)) @@
    (<<"N","N","W">> :> PyFloat(3375, -1))

\* lines 295-323 on bearing_str: float(bearing_str) read by one of the two
\* literal patterns or as a word, then the lookup in cardinal_map
FloatOrCardinal(m1, m2, word, bearing_str) ==
    IF m1.ok THEN FloatOfMatch(m1, bearing_str)
    ELSE IF m2.ok THEN FloatOfMatch(m2, bearing_str)
    ELSE IF word # PyNone THEN word
    ELSE IF bearing_str \in DOMAIN cardinal_map THEN cardinal_map[bearing_str]
    ELSE PyNone

ParseBearingStr(bearing_str) ==
    FloatOrCardinal(re_match(FLOAT_DIGITS_FIRST, bearing_str),
                    re_match(FLOAT_DOT_FIRST, bearing_str),
                    FloatOfWord(bearing_str), bearing_str)

\* mutant: the string is not upper-cased
parse_bearing_case_sensitive(bearing) ==
    IF bearing.t = "None" THEN PyNone
    ELSE IF IsNum(bearing) THEN ToFloat(bearing)
    ELSE ParseBearingStr(str_strip(bearing.s))

\* mutant: an int is brought into 0..359
parse_bearing_wrapped(bearing) ==
    IF bearing.t = "None" THEN PyNone
    ELSE IF IsNum(bearing)
         THEN (IF bearing.t = "int" THEN NormFloat(bearing.n % 360, 0) ELSE bearing)
    ELSE ParseBearingStr(str_upper(str_strip(bearing.s)))

\* mutant: a numeric input is not recognized
parse_bearing_numbers_unrecognized(bearing) ==
    IF bearing.t = "None" THEN PyNone
    ELSE IF IsNum(bearing) THEN PyNone
    ELSE ParseBearingStr(str_upper(str_strip(bearing.s)))

parse_bearing(bearing) ==
    IF bearing.t = "None" THEN PyNone
    ELSE IF IsNum(bearing) THEN ToFloat(bearing)
    ELSE ParseBearingStr(str_upper(str_strip(bearing.s)))

(***************************************************************************)
(* fix_silver_labels.py : fix_runway_entry                                 *)
(***************************************************************************)
\* mutant: runway set to None whatever it was
FixRunway_always(e) == DictSet(e, "runway", PyNone)

FixRunway(e) ==
    IF DictGet(e, "runway", PyNone) = PyStr(<<"A","L","L">>)
    THEN DictSet(e, "runway", PyNone)
    ELSE e

IsRaise(v) == "t" \in DOMAIN v /\ v.t = "raise"

\* if parsed: entry["obstacleCoordinates"] = parsed
StoreCoordinates(e, parsed) ==
    IF IsRaise(parsed) THEN parsed
    ELSE IF Truthy(parsed) THEN DictSet(e, "obstacleCoordinates", parsed)
    ELSE e

FixCoordinates(e) ==
    IF Truthy(DictGet(e, "obstacleCoordinates", PyNone))
    THEN StoreCoordinates(e, parse_coordinate(e["obstacleCoordinates"]))
    ELSE e

\* mutant: the bearing is rewritten only in an entry whose runway is None
FixBearing_by_runway(e) ==
    IF IsRaise(e) THEN e
    ELSE IF Truthy(DictGet(e, "obstacleBearing", PyNone))
            /\ DictGet(e, "runway", PyNone) = PyNone
    THEN DictSet(e, "obstacleBearing", parse_bearing(e["obstacleBearing"]))
    ELSE e

\* e is the entry after the first two rules, or the exception they raised
FixBearing(e) ==
    IF IsRaise(e) THEN e
    ELSE IF Truthy(DictGet(e, "obstacleBearing", PyNone))
    THEN DictSet(e, "obstacleBearing", parse_bearing(e["obstacleBearing"]))
    ELSE e

fix_runway_entry(e) == FixBearing(FixCoordinates(FixRunway(e)))

(***************************************************************************)
(* fix_silver_labels.py : fix_item                                         *)
(***************************************************************************)
\* a list value
PyList(elems) == [t |-> "list", items |-> elems]

\* item.get("runway_entries", [])
EntriesOf(item) == DictGet(item, "runway_entries", PyList(<<>>))

\* mutant: only the first entry is fixed
FixEach_first_only(entries) ==
    [i \in DOMAIN entries |->
        IF i = 1 THEN fix_runway_entry(entries[i]) ELSE entries[i]]

\* mutant: the entries in reverse order
FixEach_reversed(entries) ==
    [i \in DOMAIN entries |-> fix_runway_entry(entries[Len(entries) + 1 - i])]

\* [fix_runway_entry(e) for e in runway_entries]: the dict or the exception
\* of each call
FixEach(entries) == [i \in DOMAIN entries |-> fix_runway_entry(entries[i])]

Raising(fixes) == { i \in DOMAIN fixes : IsRaise(fixes[i]) }

\* the entries, which are rewritten in place, when call number k raised: the
\* earlier ones rewritten, number k up to the rule that raised, the later
\* ones untouched
RewrittenUntil(entries, fixes, k) ==
    [i \in DOMAIN entries |->
        IF i < k THEN fixes[i] ELSE IF i = k THEN FixRunway(entries[i]) ELSE entries[i]]

FirstRaising(fixes) == CHOOSE k \in Raising(fixes) : \A j \in Raising(fixes) : k <= j

StoreEntries(item, fixes) ==
    IF Raising(fixes) # {} THEN fixes[FirstRaising(fixes)]
    ELSE DictSet(item, "runway_entries", PyList(fixes))

\* iterating over None raises TypeError
fix_item(item) ==
    IF EntriesOf(item).t # "list" THEN Raise("TypeError")
    ELSE StoreEntries(item, FixEach(EntriesOf(item).items))

LeftInPlace(item, fixes) ==
    DictSet(item, "runway_entries",
            PyList(RewrittenUntil(EntriesOf(item).items, fixes, FirstRaising(fixes))))

\* the item as an exception of fix_item leaves it
ItemAfterRaise(item) ==
    IF EntriesOf(item).t # "list" THEN item
    ELSE LeftInPlace(item, FixEach(EntriesOf(item).items))

(***************************************************************************)
(* Inputs of the normalizers: coordinate strings in the notations of the   *)
(* parser's patterns, each with optional affixes and further segments, and *)
(* bearing strings over a small alphabet.                                  *)
(***************************************************************************)
MaxTailSegments == 1
MaxBearingLen == 3

CompactLats == {
    <<"6","4","4","9","N">>,
    <<"6","4","4","9","n">>,
    <<"0","1","0","6","4","1","N">>,
    <<"2","4","3","4","3","3",".","9","N">>,
    <<"2","4","3","4","3","3",".","9","5","S">>,
    <<"4","5","0","0","5","1","1","S">>,
    <<"3","6","3","8","1","8",",","4","N">> }

CompactLons == {
    <<"1","4","7","5","1","W">>,
    <<"0","0","3","3","0","E">>,
    <<"1","0","4","0","6","2","4","E">>,
    <<"0","8","1","4","2","2","8",".","8","W">>,
    <<"8","1","4","2","2","8",".","8","w">>,
    <<"1","6","8","4","4","1","6","E">>,
    <<"1","6","8","4","4","1","6","0","E">>,
    <<"0","0","6","2","0","4","3",",","6","W">> }

CompactCoords == { lat \o sp \o lon : lat \in CompactLats, sp \in {<<>>, <<" ">>}, lon \in CompactLons }

SymbolCoords == {
    <<"6","4",DEG,"4","9",APOS,"N"," ","1","4","7",DEG,"5","1",APOS,"W">>,
    <<"6","4",DEG,"4","9","N","1","4","7",DEG,"5","1","W">>,
    <<"4",DEG,"9",APOS," ","S"," "," ","7",DEG,"5",APOS," ","E">>,
    <<"N","2","4"," ","3","4"," ","3","3",".","9","/","W","8","1"," ","4","2"," ","2","8",".","8">>,
    <<"s","2","4"," ","3","4"," ","3","3"," ","/"," ","e","0","8","1"," ","4","2"," ","2","8">>,
    <<"3","7",DEG,"5",APOS,"7",".","3",DQUOTE,"N",","," ","1","2","7",DEG,"2",APOS,"2","6",".","1",DQUOTE,"E">>,
    <<"3","5",DEG,"4","4",APOS,"5","0",".","6",DQUOTE,"N"," ","1","3","9",DEG,"2","0",APOS,"3","7",".","6",DQUOTE,"E">>,
    <<"3","5",DEG,"4","4",APOS,"5","0",DPRIME,"S"," ","1","3","9",DEG,"2","0",APOS,"3","7",".","6",DPRIME,"W">>,
    <<"3","5",DEG,"4","4",APOS,"5","0",DQUOTE,"s"," ","1","3","9",DEG,"2","0",APOS,"3","7",DQUOTE,"w">>,
    <<"N","5","2","1","6","0","3",".","9"," ","E","1","0","4","2","0","5","5",".","1">>,
    <<"S","5","2","1","6","0","3"," ","W","0","4","2","0","5","5">>,
    <<"n","5","2","1","6","0","3",".","2","5"," ","e","1","0","4","2","0","5","5">> }

DecimalCoords == {
    <<"6","4",".","8","1","6","7",","," ","-","1","4","7",".","8","5","0","0">>,
    <<"-","1",".","5",",","2",".","5">>,
    <<"1",".","1","1","1","3","8","9",","," ","1","0","4",".","1","0","6","6","6","7">> }

JunkCoords == {
    <<"A","B","C">>,
    <<"6","4","4","9","N">>,
    <<"1","2">>,
    <<"N">>,
    <<"1",".","5">> }

SingleCoords == CompactCoords \cup SymbolCoords \cup DecimalCoords \cup JunkCoords

CoordPrefixes == { <<>>, <<" ">> }
CoordSuffixes == { <<>>, <<" ">>, <<"0","0","5">>, <<"X">> }

TailSeparators == { <<" ","-"," ">>, <<","," ">>, <<",">> }
TailCoords == {
    <<"6","5","4","9","N","1","4","8","5","1","W">>,
    <<"X","Y","Z">>,
    <<"2",".","5",","," ","3",".","5">> }

TailSegments == { sep \o c : sep \in TailSeparators, c \in TailCoords }

CoordStrings ==
    { pre \o c \o suf \o Flatten(tail) :
        pre \in CoordPrefixes, c \in SingleCoords, suf \in CoordSuffixes,
        tail \in SeqsUpTo(TailSegments, MaxTailSegments) }

BearingChars == { "N", "E", "S", "W", "n", "e", " ", "1", "0", ".", "-", "X" }

\* longer bearing strings: the words float() reads, exponents, compass
\* points in mixed case, and text that is neither
BearingWords == {
    <<"n","a","n">>, <<"-","i","n","f">>, <<" ","I","n","f","i","n","i","t","y">>,
    <<"+","N","a","N"," ">>, <<"i","n","f","i","n","i","t">>,
    <<"1","E","-","2">>, <<"1","e","+","1","0">>, <<"-",".","5","e","1">>,
    <<"7","2","0">>, <<"4","0","0">>, <<"0","4","5","\n">>, <<"2","2",".","5","0">>,
    <<" ","n","N","w"," ">>, <<"e","s","e","\t">>, <<"N","O","R","T","H">>,
    <<"1","8","0","T">>, <<"1"," ","0">>, <<"1",".","0",".","0">> }

BearingStrings == SeqsUpTo(BearingChars, MaxBearingLen) \cup BearingWords

BearingNumbers == { PyInt(0), PyFloat(0, 0), PyInt(180), PyFloat(180, 0), PyInt(400),
                    PyInt(-10), PyFloat(225, -1), PyFloat(-5, -1),
                    SpecialFloat("nan"), SpecialFloat("inf") }

(***************************************************************************)
(* Specification Spec: classify_notam applied to one record.               *)
(***************************************************************************)
Init ==
    /\ pc = "start"
    /\ notam \in { [notam_id |-> "N1", notam_text |-> t] : t \in Texts }
                 \cup { [notam_id |-> "N1"] }
    /\ result = None
    /\ notams = <<>>
    /\ idx = 0
    /\ relevant = <<>>
    /\ excluded = <<>>
    /\ exclusion_reasons = EmptyDict
    /\ loaded = <<>>
    /\ entry = EmptyDict
    /\ history = <<>>
    /\ NoCoordinate /\ NoBearing /\ NoItem /\ NoTools

Classify ==
    /\ pc = "start"
    /\ result' = classify_notam(notam)
    /\ pc' = "done"
    /\ UNCHANGED <<notam, notams, idx, relevant, excluded, exclusion_reasons, loaded>>
    /\ UNCHANGED <<entry, history, coord_vars, bearing_vars, item_vars, tool_vars>>

Next == Classify

Spec == Init /\ [][Next]_vars

(***************************************************************************)
(* The properties.  The text classified in Spec is NotamText(notam).       *)
(***************************************************************************)
Text == NotamText(notam)

Classified == pc = "done"

\* the whitespace characters of the inputs
AllWhitespace(s) == \A p \in DOMAIN s : s[p] \in {" ", "\n", "\t", "\r"}

\* C1: classify_notam evaluates its rules in the order empty-text,
\* taxiway-only, navigation-only, inclusion-keyword, default and returns the
\* reason of the first rule whose predicate holds; a text for which the
\* taxiway-only or navigation-only predicate holds is never relevant, even
\* when it contains inclusion keywords.
C1_FirstRuleWins ==
    Classified =>
        LET e == AllWhitespace(Text)
            t == is_taxiway_only(Text)
            n == is_navigation_only(Text)
            k == has_inclusion_keyword(Text)
        IN  /\ e => result = <<FALSE, "empty_text">>
            /\ (~e /\ t) => result = <<FALSE, "taxiway_only">>
            /\ (~e /\ ~t /\ n) => result = <<FALSE, "navigation_only">>
            /\ (~e /\ ~t /\ ~n /\ k) => result = <<TRUE, "has_relevant_keyword">>
            /\ (~e /\ ~t /\ ~n /\ ~k) => result = <<FALSE, "no_relevant_keywords">>
            /\ (t \/ n) => result[1] = FALSE

\* a taxiway-only text that also holds the inclusion keywords RWY and CLSD
C1_Witness ==
    /\ Classified
    /\ is_taxiway_only(Text)
    /\ Contains(<<"C","L","S","D">>, Text)
    /\ Contains(<<"R","W","Y">>, Text)
    /\ result = <<FALSE, "taxiway_only">>

\* C2: classify_notam is total and deterministic: it returns exactly one
\* reason of the five, classifying the same text again gives the same
\* result, and an empty or all-whitespace text gets (false, empty_text).
C2_TotalAndDeterministic ==
    Classified =>
        /\ result \in BOOLEAN \X Reasons
        /\ result = classify_notam(notam)
        /\ AllWhitespace(Text) => result = <<FALSE, "empty_text">>

C2_Witness ==
    /\ Classified
    /\ Len(Text) >= 2
    /\ AllWhitespace(Text)
    /\ result = <<FALSE, "empty_text">>

\* a whole-word token (case-insensitively) at position p
TokenAt(word, s, p) ==
    /\ p + Len(word) - 1 <= Len(s)
    /\ \A k \in DOMAIN word : s[p + k - 1] \in {word[k], LowerChar(word[k])[1]}
    /\ (p = 1 \/ ~IsWordChar(s[p - 1]))
    /\ (p + Len(word) > Len(s) \/ ~IsWordChar(s[p + Len(word)]))

\* C3: the taxiway-only rule fires exactly when the text contains a
\* whole-word token TWY for which no whole-word token RWY appears anywhere
\* after it in the string, an RWY on a later line included.
C3_TaxiwayRule ==
    Classified =>
        (is_taxiway_only(Text) <=>
            \E p \in DOMAIN Text :
                /\ TokenAt(<<"T","W","Y">>, Text, p)
                /\ ~\E r \in (p + 3)..Len(Text) : TokenAt(<<"R","W","Y">>, Text, r))

Claim_Closure5 == {
    <<"D","S","P","L","C","D">>, <<"C","L","S","D">>, <<"C","L","O","S","E","D">>,
    <<"F","I","C","O","N">>, <<"C","O","N","T","A","M","I","N","A","T","E","D">> }

Claim_StatusPhrases == {
    <<"U","/","S">>, <<"O","T","S">>, <<"N","O","T"," ","A","V","B","L">>,
    <<"I","N","O","P">>, <<"O","N"," ","T","E","S","T">>, <<"M","A","I","N","T">> }

Claim_NavAids == {
    <<"I","L","S">>, <<"V","O","R">>, <<"G","P","S">>, <<"N","D","B">>, <<"D","M","E">>,
    <<"R","N","A","V">>, <<"L","O","C">>, <<"G","S">>, <<"P","A","P","I">>, <<"V","A","S","I">> }

Claim_Procedures == {
    <<"A","P","C","H">>, <<"A","P","P","R","O","A","C","H">>, <<"D","E","P">>,
    <<"D","E","P","A","R","T","U","R","E">>, <<"S","I","D">>, <<"S","T","A","R">>,
    <<"I","A","P">> }

Claim_Inclusion23 == {
    <<"R","W","Y">>, <<"R","U","N","W","A","Y">>, <<"T","H","R">>,
    <<"T","H","R","E","S","H","O","L","D">>, <<"F","I","C","O","N">>, <<"C","O","N","T","A","M","I","N","A","T","E","D">>,
    <<"I","C","E">>, <<"S","N","O","W">>, <<"S","N">>,
    <<"S","L","U","S","H">>, <<"W","A","T","E","R">>, <<"W","E","T">>,
    <<"C","O","M","P","A","C","T","E","D">>, <<"B","R","A","K","I","N","G">>, <<"O","B","S","T">>,
    <<"O","B","S","T","A","C","L","E">>, <<"C","R","A","N","E">>, <<"T","O","W","E","R">>,
    <<"H","T","G">>, <<"C","L","S","D">>, <<"C","L","O","S","E","D">>,
    <<"D","S","P","L","C","D">>, <<"D","I","S","P","L","A","C","E","D">> }

HasRunwayRef(s) ==
    Contains(<<"R","W","Y">>, str_upper(s)) \/ Contains(<<"R","U","N","W","A","Y">>, str_upper(s))

\* C4: for a text with a runway reference, is_navigation_only is false
\* whenever the text contains one of DSPLCD, CLSD, CLOSED, FICON,
\* CONTAMINATED; otherwise it is true exactly when the text contains a
\* navigation-aid or procedure keyword and an equipment-status phrase.
\* "ILS RWY 27 U/S" is navigation_only and "ILS RWY 27 CLSD" is relevant.
C4_NavigationOnlyWithRunway ==
    /\ HasRunwayRef(Text) =>
         is_navigation_only(Text) =
            IF ContainsAny(Claim_Closure5, str_upper(Text)) THEN FALSE
            ELSE /\ ContainsAny(Claim_NavAids \cup Claim_Procedures, str_upper(Text))
                 /\ ContainsAny(Claim_StatusPhrases, str_upper(Text))
    /\ (Classified /\ Text = Ex_ILS_RWY_US) => result = <<FALSE, "navigation_only">>
    /\ (Classified /\ Text = Ex_ILS_RWY_CLSD) => result = <<TRUE, "has_relevant_keyword">>

\* a runway text with a navigation aid, a status phrase and CLOSED: relevant
C4_Witness ==
    /\ Classified
    /\ HasRunwayRef(Text)
    /\ Contains(<<"I","L","S">>, Text)
    /\ Contains(<<"U","/","S">>, Text)
    /\ Contains(<<"C","L","O","S","E","D">>, Text)
    /\ ~is_taxiway_only(Text)
    /\ result = <<TRUE, "has_relevant_keyword">>

\* C5: for a text with no runway reference, is_navigation_only is true
\* exactly when the text contains a navigation-aid or procedure keyword,
\* whatever closure keyword is also present.
C5_NavigationOnlyWithoutRunway ==
    ~HasRunwayRef(Text) =>
        (is_navigation_only(Text) <=>
            ContainsAny(Claim_NavAids \cup Claim_Procedures, str_upper(Text)))

C5_Witness ==
    /\ Classified
    /\ ~HasRunwayRef(Text)
    /\ Contains(<<"I","L","S">>, Text)
    /\ Contains(<<"C","L","S","D">>, Text)
    /\ result = <<FALSE, "navigation_only">>

\* C6: is_relevant is true iff the reason is has_relevant_keyword, which
\* happens exactly when none of rules 1-3 fires and the upper-cased text
\* contains one of the 23 inclusion tokens; with none of rules 1-3 and no
\* token the result is (false, no_relevant_keywords).
C6_RelevantIffKeyword ==
    /\ Cardinality(Claim_Inclusion23) = 23
    /\ Classified =>
        LET rules123 == \/ AllWhitespace(Text)
                        \/ is_taxiway_only(Text)
                        \/ is_navigation_only(Text)
            token == ContainsAny(Claim_Inclusion23, str_upper(Text))
        IN  /\ result[1] <=> result[2] = "has_relevant_keyword"
            /\ result[2] = "has_relevant_keyword" <=> (~rules123 /\ token)
            /\ (~rules123 /\ ~token) => result = <<FALSE, "no_relevant_keywords">>

\* a lower-case text made relevant by an inclusion token
C6_Witness ==
    /\ Classified
    /\ Contains(<<"r","w","y">>, Text)
    /\ ~Contains(<<"R","W","Y">>, Text)
    /\ ~ContainsAny(Claim_Inclusion23, Text)
    /\ result = <<TRUE, "has_relevant_keyword">>

\* C9: classification is case-insensitive: classify_notam gives the same
\* result for a text, for its upper-case form and for its lower-case form.
C9_CaseInsensitive ==
    Classified =>
        /\ result = classify_notam([notam_text |-> str_upper(Text)])
        /\ result = classify_notam([notam_text |-> str_lower(Text)])

(***************************************************************************)
(* Specification SpecFilter: filter_notams over a list of records.  The    *)
(* lists relevant and excluded hold references to the dicts of notams, as  *)
(* list.append(notam) stores them: a reference is the dict's position.     *)
(***************************************************************************)
InitFilter ==
    /\ pc = "loop"
    /\ notams \in SeqsUpTo(FilterRecords, MaxNotams)
    /\ loaded = notams
    /\ idx = 0
    /\ relevant = <<>>
    /\ excluded = <<>>
    /\ exclusion_reasons = EmptyDict
    /\ notam = None
    /\ result = None
    /\ entry = EmptyDict
    /\ history = <<>>
    /\ NoCoordinate /\ NoBearing /\ NoItem /\ NoTools

\* mutant: relevant.insert(0, notam) in place of relevant.append(notam)
FilterBody_prepend(n) ==
    LET r == classify_notam(notams[n])
    IN  IF r[1]
        THEN /\ relevant' = <<n>> \o relevant
             /\ UNCHANGED <<notams, excluded, exclusion_reasons>>
        ELSE /\ notams' = [notams EXCEPT ![n] = DictSet(@, "_exclusion_reason", r[2])]
             /\ excluded' = Append(excluded, n)
             /\ exclusion_reasons' =
                    DictSet(exclusion_reasons, r[2], DictGet(exclusion_reasons, r[2], 0) + 1)
             /\ UNCHANGED relevant

\* mutant: exclusion_reasons[reason] = 1 in place of the increment
FilterBody_count_reset(n) ==
    LET r == classify_notam(notams[n])
    IN  IF r[1]
        THEN /\ relevant' = Append(relevant, n)
             /\ UNCHANGED <<notams, excluded, exclusion_reasons>>
        ELSE /\ notams' = [notams EXCEPT ![n] = DictSet(@, "_exclusion_reason", r[2])]
             /\ excluded' = Append(excluded, n)
             /\ exclusion_reasons' = DictSet(exclusion_reasons, r[2], 1)
             /\ UNCHANGED relevant

\* the body of  for notam in notams  (lines 148-156) on the next record
FilterBody(n) ==
    LET r == classify_notam(notams[n])
        is_relevant == r[1]
        reason == r[2]
    IN  IF is_relevant
        THEN /\ relevant' = Append(relevant, n)
             /\ UNCHANGED <<notams, excluded, exclusion_reasons>>
        ELSE /\ notams' = [notams EXCEPT ![n] = DictSet(@, "_exclusion_reason", reason)]
             /\ excluded' = Append(excluded, n)
             /\ exclusion_reasons' =
                    DictSet(exclusion_reasons, reason, DictGet(exclusion_reasons, reason, 0) + 1)
             /\ UNCHANGED relevant

FilterStep ==
    /\ pc = "loop"
    /\ idx < Len(notams)
    /\ FilterBody(idx + 1)
    /\ idx' = idx + 1
    /\ UNCHANGED <<pc, notam, result, loaded, entry, history>>
    /\ UNCHANGED <<coord_vars, bearing_vars, item_vars, tool_vars>>

FilterReturn ==
    /\ pc = "loop"
    /\ idx = Len(notams)
    /\ pc' = "returned"
    /\ UNCHANGED <<notam, result, notams, idx, relevant, excluded, exclusion_reasons, loaded>>
    /\ UNCHANGED <<entry, history, coord_vars, bearing_vars, item_vars, tool_vars>>

NextFilter == FilterStep \/ FilterReturn

SpecFilter == InitFilter /\ [][NextFilter]_vars

Returned == pc = "returned"

StrictlyIncreasing(refs) == \A a, b \in DOMAIN refs : a < b => refs[a] < refs[b]

\* C7: filter_notams partitions its input: every input record is in exactly
\* one of relevant and excluded, exactly once, none is added or dropped, and
\* each list keeps the input order.
C7_Partition ==
    Returned =>
        /\ Len(notams) = Len(loaded)
        /\ Range(relevant) \cup Range(excluded) = DOMAIN loaded
        /\ Range(relevant) \cap Range(excluded) = {}
        /\ Len(relevant) + Len(excluded) = Len(loaded)
        /\ StrictlyIncreasing(relevant)
        /\ StrictlyIncreasing(excluded)

\* both lists hold several records, and an excluded one precedes a relevant one
C7_Witness ==
    /\ Returned
    /\ Len(relevant) >= 2
    /\ Len(excluded) >= 1
    /\ excluded[1] < relevant[2]

\* d without key k
DictWithout(d, k) == [x \in DOMAIN d \ {k} |-> d[x]]

\* C8: after filter_notams every excluded record carries the reason
\* classify_notam returns for it as its exclusion tag, no relevant record
\* has a tag added, no other field of any record is changed, and for every
\* reason the returned count is the number of excluded records tagged with
\* it: the counts sum to the length of excluded and has_relevant_keyword is
\* never a key.
C8_TagsAndCounts ==
    Returned =>
        /\ \A k \in DOMAIN excluded :
              LET n == excluded[k]
              IN  /\ "_exclusion_reason" \in DOMAIN notams[n]
                  /\ notams[n]["_exclusion_reason"] = classify_notam(loaded[n])[2]
                  /\ DictWithout(notams[n], "_exclusion_reason") = loaded[n]
        /\ \A k \in DOMAIN relevant : notams[relevant[k]] = loaded[relevant[k]]
        /\ \A r \in Reasons :
              DictGet(exclusion_reasons, r, 0) =
                  Cardinality({ k \in DOMAIN excluded :
                                  notams[excluded[k]]["_exclusion_reason"] = r })
        /\ DOMAIN exclusion_reasons \subseteq Reasons \ {"has_relevant_keyword"}
        /\ \A r \in DOMAIN exclusion_reasons : exclusion_reasons[r] >= 1

\* two records excluded for the same reason, counted 2, beside a relevant one
C8_Witness ==
    /\ Returned
    /\ Len(relevant) >= 1
    /\ \E r \in DOMAIN exclusion_reasons : exclusion_reasons[r] = 2

(***************************************************************************)
(* Specification SpecFix: fix_runway_entry applied again and again to one  *)
(* runway entry.  The entry is a dict; each of the three fields the        *)
(* function reads may be absent.                                           *)
(***************************************************************************)
Absent == [t |-> "absent"]

MakeEntry(runway, coordinates, bearing) ==
    LET vals == [runway |-> runway, obstacleCoordinates |-> coordinates,
                 obstacleBearing |-> bearing, notes |-> PyStr(<<"T","R","E","E">>)]
    IN  [k \in { x \in DOMAIN vals : vals[x] # Absent } |-> vals[k]]

RunwayValues ==
    { Absent, PyNone, PyStr(<<"A","L","L">>), PyStr(<<"0","9","L">>), PyStr(<<"a","l","l">>) }

\* coordinate strings of entries: every single coordinate, and the decimal
\* and unrecognized ones with affixes and further segments
EntryCoordStrings ==
    SingleCoords \cup
    { pre \o c \o suf \o Flatten(tail) :
        pre \in CoordPrefixes, c \in DecimalCoords \cup JunkCoords, suf \in CoordSuffixes,
        tail \in SeqsUpTo(TailSegments, MaxTailSegments) }

CoordinateValues ==
    { Absent, PyNone, PyStr(<<>>), PyInt(0), PyInt(5) }
    \cup { PyStr(c) : c \in EntryCoordStrings }

BearingValues ==
    { Absent, PyNone } \cup BearingNumbers \cup { PyStr(b) : b \in BearingStrings }

FewRunways == { Absent, PyStr(<<"A","L","L">>) }
FewCoordinates == { Absent, PyStr(<<"6","4","4","9","N","1","4","7","5","1","W">>),
                    PyStr(<<"A","B","C">>) }
FewBearings == { Absent, PyStr(<<"N","E">>), PyInt(0) }

\* the entries of the model: every runway value, every coordinate value and
\* every bearing value, each with a few values of the other two fields
EntriesOfRunways ==
    { MakeEntry(r, c, b) : r \in RunwayValues, c \in FewCoordinates, b \in FewBearings }
EntriesOfCoordinates ==
    { MakeEntry(r, c, b) : r \in FewRunways, c \in CoordinateValues, b \in FewBearings }
EntriesOfBearings ==
    { MakeEntry(r, c, b) : r \in FewRunways, c \in FewCoordinates, b \in BearingValues }

InitFix ==
    /\ pc = "fix"
    /\ \/ entry \in EntriesOfRunways
       \/ entry \in EntriesOfCoordinates
       \/ entry \in EntriesOfBearings
    /\ history = <<entry>>
    /\ notam = None
    /\ result = None
    /\ notams = <<>>
    /\ idx = 0
    /\ relevant = <<>>
    /\ excluded = <<>>
    /\ exclusion_reasons = EmptyDict
    /\ loaded = <<>>
    /\ NoCoordinate /\ NoBearing /\ NoItem /\ NoTools

\* the effect of one call on the dict: the entry it returned, or, when
\* parse_coordinate raised, the assignment to runway made before
FixOutcome(returned) ==
    IF IsRaise(returned)
    THEN /\ entry' = FixRunway(entry)
         /\ pc' = "raised"
         /\ UNCHANGED history
    ELSE /\ entry' = returned
         /\ history' = Append(history, returned)
         /\ UNCHANGED pc

\* one call fix_runway_entry(entry) on the dict the previous call returned
FixRunwayEntry ==
    /\ pc = "fix"
    /\ Len(history) <= MaxApply
    /\ FixOutcome(fix_runway_entry(entry))
    /\ UNCHANGED <<notam, result, notams, idx, relevant, excluded, exclusion_reasons, loaded>>
    /\ UNCHANGED <<coord_vars, bearing_vars, item_vars, tool_vars>>

NextFix == FixRunwayEntry

SpecFix == InitFix /\ [][NextFix]_vars

\* e1 == e2 of two dicts
SameEntry(e1, e2) ==
    /\ DOMAIN e1 = DOMAIN e2
    /\ \A k \in DOMAIN e1 : PyEq(e1[k], e2[k])

\* C10: fix_runway_entry is idempotent: whatever the runway, the coordinates
\* and the bearing of an entry are, every further call returns an entry equal
\* (==) to the one the first call returned.  Equality is that of Python: the
\* int 45 of the compass table and the float 45.0 a further call makes of
\* it are equal.
C10_Idempotent ==
    \A i \in 3..Len(history) : SameEntry(history[i], history[2])

\* an entry with runway "ALL", a coordinate in a recognized notation and a
\* compass point, all three rewritten by the first call, after a second call
C10_Witness ==
    /\ Len(history) = 3
    /\ DictGet(history[1], "runway", PyNone) = PyStr(<<"A","L","L">>)
    /\ DictGet(history[1], "obstacleBearing", PyNone) = PyStr(<<"N","E">>)
    /\ DictGet(history[2], "obstacleBearing", PyNone) = PyInt(45)
    /\ DictGet(history[3], "obstacleBearing", PyNone) = PyFloat(45, 0)
    /\ "obstacleCoordinates" \in DOMAIN history[1]
    /\ history[2]["obstacleCoordinates"] # history[1]["obstacleCoordinates"]
    /\ history[2]["runway"] = PyNone

Fixed == pc = "fix" /\ Len(history) >= 2

\* C17 as stated: an obstacleBearing that is present (not None; the number 0
\* and the empty string included) is replaced by parse_bearing of it, so
\* that after a call the field is None or a number, never a string.
C17_BearingOverwritten ==
    (Fixed /\ DictGet(history[1], "obstacleBearing", PyNone) # PyNone) =>
        /\ PyEq(history[2]["obstacleBearing"],
                parse_bearing(history[1]["obstacleBearing"]))
        /\ history[2]["obstacleBearing"].t # "str"

\* C18: fix_runway_entry sets runway to None exactly when it is the string
\* 'ALL'; any other runway ('09L', 'all', None) keeps its value, an entry
\* without runway still has none, and no entry has runway 'ALL' after a
\* call, also when the call ended in an exception of a later rule.
C18_RunwayAll ==
    /\ Fixed =>
           /\ DictGet(history[1], "runway", Absent) = PyStr(<<"A","L","L">>) =>
                  history[2]["runway"] = PyNone
           /\ DictGet(history[1], "runway", Absent) # PyStr(<<"A","L","L">>) =>
                  DictGet(history[2], "runway", Absent)
                      = DictGet(history[1], "runway", Absent)
           /\ DictGet(history[2], "runway", Absent) # PyStr(<<"A","L","L">>)
    /\ pc = "raised" =>
           /\ DictGet(entry, "runway", Absent) # PyStr(<<"A","L","L">>)
           /\ DictGet(history[1], "runway", Absent) # PyStr(<<"A","L","L">>) =>
                  DictGet(entry, "runway", Absent)
                      = DictGet(history[1], "runway", Absent)

\* runway 'ALL' became None while the other fields had nothing to rewrite
C18_Witness ==
    /\ Fixed
    /\ history[1] = MakeEntry(PyStr(<<"A","L","L">>), Absent, Absent)
    /\ history[2] = MakeEntry(PyNone, Absent, Absent)

(***************************************************************************)
(* Specification SpecCoord: parse_single_coordinate and parse_coordinate   *)
(* on one raw string.  A raw string is written from a sample (degrees,     *)
(* minutes, seconds and hemisphere of a latitude and a longitude) in one   *)
(* of the notations a to h of parse_single_coordinate, or is one of the    *)
(* strings of the input sets above followed by further segments.           *)
(***************************************************************************)
Formats == { "a", "b", "c", "d", "e", "f", "g", "h" }
MinuteOnly == { "b", "c" }

NoSample == [fmt |-> "none"]

LatParts == {
    [deg |-> 1,  min |-> 6,  sec |-> 41, frac |-> <<>>,        dir |-> "N"],
    [deg |-> 24, min |-> 34, sec |-> 33, frac |-> <<"9">>,     dir |-> "S"],
    [deg |-> 64, min |-> 49, sec |-> 0,  frac |-> <<>>,        dir |-> "N"],
    [deg |-> 37, min |-> 5,  sec |-> 7,  frac |-> <<"3">>,     dir |-> "S"],
    [deg |-> 0,  min |-> 0,  sec |-> 0,  frac |-> <<>>,        dir |-> "S"],
    [deg |-> 52, min |-> 16, sec |-> 3,  frac |-> <<"2","5">>, dir |-> "N"],
    [deg |-> 36, min |-> 38, sec |-> 18, frac |-> <<"4">>,     dir |-> "N"] }

\* digits is the width of the degrees in the compact notations
LonParts == {
    [deg |-> 104, min |-> 6,  sec |-> 24, frac |-> <<>>,        dir |-> "E", digits |-> 3],
    [deg |-> 81,  min |-> 42, sec |-> 28, frac |-> <<"8">>,     dir |-> "W", digits |-> 3],
    [deg |-> 81,  min |-> 42, sec |-> 28, frac |-> <<"8">>,     dir |-> "W", digits |-> 2],
    [deg |-> 147, min |-> 51, sec |-> 0,  frac |-> <<>>,        dir |-> "W", digits |-> 3],
    [deg |-> 6,   min |-> 20, sec |-> 43, frac |-> <<"6">>,     dir |-> "W", digits |-> 3],
    [deg |-> 0,   min |-> 0,  sec |-> 0,  frac |-> <<>>,        dir |-> "E", digits |-> 3],
    [deg |-> 139, min |-> 20, sec |-> 37, frac |-> <<"0","5">>, dir |-> "E", digits |-> 3] }

\* notation h packs the seconds in three digits, one digit of tenths; the
\* longitude seconds may have two digits, without tenths
Writable(fmt, lat, lon) ==
    fmt = "h" => Len(lat.frac) = 1 /\ Len(lon.frac) <= 1 /\ lon.digits = 3

Samples ==
    { [fmt |-> f, lat |-> lat, lon |-> lon] :
        f \in Formats, lat \in LatParts, lon \in LonParts }

WritableSamples == { x \in Samples : Writable(x.fmt, x.lat, x.lon) }

Num(n) == NatToDigits(n)
Pad(n, width) == ZeroPad(NatToDigits(n), width)
Seconds(part, point) ==
    Pad(part.sec, 2) \o (IF part.frac = <<>> THEN <<>> ELSE <<point>> \o part.frac)
PlainSeconds(part) ==
    Num(part.sec) \o (IF part.frac = <<>> THEN <<>> ELSE <<".">> \o part.frac)

\* the compact notation with a space between the two halves, the seconds
\* written with the given decimal separators
WriteCompact(x, latpoint, lonpoint) ==
    Pad(x.lat.deg, 2) \o Pad(x.lat.min, 2) \o Seconds(x.lat, latpoint) \o <<x.lat.dir, " ">>
    \o Pad(x.lon.deg, x.lon.digits) \o Pad(x.lon.min, 2) \o Seconds(x.lon, lonpoint)
    \o <<x.lon.dir>>

\* the raw string of a sample
Write(x) ==
    LET lat == x.lat
        lon == x.lon
    IN  CASE x.fmt = "a" ->
               Pad(lat.deg, 2) \o Pad(lat.min, 2) \o Seconds(lat, ".") \o <<lat.dir>>
               \o Pad(lon.deg, lon.digits) \o Pad(lon.min, 2) \o Seconds(lon, ".") \o <<lon.dir>>
          [] x.fmt = "b" ->
               Pad(lat.deg, 2) \o Pad(lat.min, 2) \o <<lat.dir>>
               \o Pad(lon.deg, lon.digits) \o Pad(lon.min, 2) \o <<lon.dir>>
          [] x.fmt = "c" ->
               Num(lat.deg) \o <<DEG>> \o Num(lat.min) \o <<APOS, lat.dir, " ">>
               \o Num(lon.deg) \o <<DEG>> \o Num(lon.min) \o <<APOS, lon.dir>>
          [] x.fmt = "d" ->
               <<lat.dir>> \o Num(lat.deg) \o <<" ">> \o Num(lat.min) \o <<" ">>
               \o PlainSeconds(lat) \o <<"/">>
               \o <<lon.dir>> \o Num(lon.deg) \o <<" ">> \o Num(lon.min) \o <<" ">>
               \o PlainSeconds(lon)
          [] x.fmt = "e" ->
               Num(lat.deg) \o <<DEG>> \o Num(lat.min) \o <<APOS>> \o PlainSeconds(lat)
               \o <<DQUOTE, lat.dir, ",", " ">>
               \o Num(lon.deg) \o <<DEG>> \o Num(lon.min) \o <<APOS>> \o PlainSeconds(lon)
               \o <<DQUOTE, lon.dir>>
          [] x.fmt = "f" ->
               <<lat.dir>> \o Pad(lat.deg, 2) \o Pad(lat.min, 2) \o Seconds(lat, ".") \o <<" ">>
               \o <<lon.dir>> \o Pad(lon.deg, lon.digits) \o Pad(lon.min, 2) \o Seconds(lon, ".")
          [] x.fmt = "g" -> WriteCompact(x, ",", ",")
          [] x.fmt = "h" ->
               Pad(lat.deg, 2) \o Pad(lat.min, 2) \o Pad(lat.sec, 2) \o lat.frac \o <<lat.dir>>
               \o Pad(lon.deg, 3) \o Pad(lon.min, 2) \o Pad(lon.sec, 2) \o lon.frac \o <<lon.dir>>

\* the samples written with further segments after them
TailedSamples ==
    { x \in WritableSamples : x.lat.deg = 24 /\ x.lon.deg = 81 /\ x.lon.digits = 3 }

Tails == { Flatten(tail) : tail \in SeqsUpTo(TailSegments, MaxTailSegments) }

\* the samples written with a comma in one seconds field and a point in
\* the other
MixedSamples ==
    { x \in WritableSamples : x.fmt = "g" /\ x.lat.frac # <<>> /\ x.lon.frac # <<>> }
MixedPoints == { <<".", ",">>, <<",", ".">> }

\* strings that are not written from a sample
AffixedStrings ==
    { pre \o c \o suf : pre \in CoordPrefixes, c \in SingleCoords, suf \in CoordSuffixes }
TailedStrings ==
    { pre \o c \o tail :
        pre \in {<<>>, <<" ">>}, c \in SymbolCoords \cup DecimalCoords \cup JunkCoords,
        tail \in Tails }
EdgeStrings == { <<>>, <<"\n">>, <<",">>, <<" ", "-", " ">> }

InitCoord ==
    /\ pc = "start"
    /\ \/ \E x \in WritableSamples, suf \in CoordSuffixes :
             sample = x /\ raw = Write(x) \o suf
       \/ \E x \in TailedSamples, tail \in Tails :
             sample = x /\ raw = Write(x) \o tail
       \/ \E x \in MixedSamples, p \in MixedPoints, suf \in CoordSuffixes :
             sample = x /\ raw = WriteCompact(x, p[1], p[2]) \o suf
       \/ sample = NoSample /\ raw \in AffixedStrings
       \/ sample = NoSample /\ raw \in TailedStrings
       \/ sample = NoSample /\ raw \in EdgeStrings
    /\ single = None
    /\ results = <<>>
    /\ notam = None
    /\ result = None
    /\ notams = <<>>
    /\ idx = 0
    /\ relevant = <<>>
    /\ excluded = <<>>
    /\ exclusion_reasons = EmptyDict
    /\ loaded = <<>>
    /\ entry = EmptyDict
    /\ history = <<>>
    /\ NoBearing /\ NoItem /\ NoTools

\* the call parse_single_coordinate(raw)
ParseSingleCoordinate ==
    /\ pc = "start"
    /\ single' = parse_single_coordinate(raw)
    /\ pc' = "single"
    /\ UNCHANGED <<raw, sample, results>>
    /\ UNCHANGED <<notam, result, notams, idx, relevant, excluded, exclusion_reasons, loaded>>
    /\ UNCHANGED <<entry, history, bearing_vars, item_vars, tool_vars>>

\* the call parse_coordinate(raw), then parse_coordinate of what it returned
ParseCoordinate ==
    /\ pc = "single"
    /\ Len(results) < MaxApply
    /\ results' = Append(results,
                         parse_coordinate(IF results = <<>> THEN PyStr(raw)
                                          ELSE results[Len(results)]))
    /\ UNCHANGED <<pc, raw, sample, single>>
    /\ UNCHANGED <<notam, result, notams, idx, relevant, excluded, exclusion_reasons, loaded>>
    /\ UNCHANGED <<entry, history, bearing_vars, item_vars, tool_vars>>

NextCoord == ParseSingleCoordinate \/ ParseCoordinate

SpecCoord == InitCoord /\ [][NextCoord]_vars

\* the whole of s is in the canonical decimal format
IsCanonical(s) == re_match(DECIMAL_PATTERN \o <<End>>, s).ok

\* s starts in the canonical decimal format (re.match)
StartsCanonical(s) == re_match(DECIMAL_PATTERN, s).ok

\* no part of s before a separator is recognized
NoPartRecognized(s) ==
    \A k \in 1..Len(separators) :
        Contains(separators[k], s) =>
            parse_single_coordinate(str_strip(FirstPart(s, separators[k]))) = PyNone

Called == pc = "single" /\ Len(results) >= 1

\* C11: parse_coordinate never makes null of a text: of a non-empty raw
\* string it returns a non-empty string, which is raw itself or a string
\* that matches the canonical decimal pattern; it is raw itself whenever neither raw nor a part of it
\* before a separator is recognized, while parse_single_coordinate returns
\* None for that raw; and fix_runway_entry leaves a non-empty string in
\* obstacleCoordinates.
C11_NeverNull ==
    (Called /\ raw # <<>>) =>
        LET out == results[1]
            fixed == fix_runway_entry(MakeEntry(Absent, PyStr(raw), Absent))
        IN  /\ out.t = "str" /\ out.s # <<>>
            /\ out.s = raw \/ StartsCanonical(out.s)
            /\ (single = PyNone /\ NoPartRecognized(raw)) => out.s = raw
            /\ (out.s = raw /\ ~StartsCanonical(raw)) => single = PyNone
            /\ fixed["obstacleCoordinates"] = out

\* an unrecognized text with a separator in it came back unchanged
C11_Witness ==
    /\ Called
    /\ Contains(<<",", " ">>, raw)
    /\ single = PyNone
    /\ NoPartRecognized(raw)
    /\ results[1] = PyStr(raw)

\* C12: parse_coordinate is idempotent: a raw string that matches the
\* canonical decimal pattern is returned unchanged, every result that differs
\* from the raw string (the output of a recognized format) matches the
\* canonical pattern, over its whole length when raw was written in one of
\* the notations, and a second call on the result of the first returns that
\* result.
C12_Idempotent ==
    Called =>
        /\ StartsCanonical(raw) => results[1] = PyStr(raw)
        /\ (raw # <<>> /\ results[1] # PyStr(raw)) => StartsCanonical(results[1].s)
        /\ (single # PyNone /\ sample # NoSample) =>
               results[1] # PyStr(raw) /\ IsCanonical(results[1].s)
        /\ Len(results) >= 2 => results[2] = results[1]

\* a text in one of the notations was converted, and the second call
\* returned the converted text
C12_Witness ==
    /\ Called
    /\ Len(results) = 2
    /\ sample # NoSample
    /\ results[1] # PyStr(raw)
    /\ IsCanonical(results[1].s)
    /\ results[2] = results[1]

\* the two numbers of a canonical string, each as its sign, its integer
\* part and its decimals
LatText(s) == FirstPart(s, <<",", " ">>)
LonText(s) == SubSeq(s, Len(LatText(s)) + 3, Len(s))
Unsigned(txt) == IF txt[1] = "-" THEN Tail(txt) ELSE txt
Reading(txt) ==
    [neg |-> txt[1] = "-",
     int |-> SecondsOf(Unsigned(txt)).int,
     frac |-> SecondsOf(Unsigned(txt)).frac]

\* the longitude as the text has it: in the notations that end with the
\* seconds, digits that follow extend the seconds (\d+) or their fraction
LonInText(x, text) ==
    IF x.fmt \in {"d", "f"} /\ text = Write(x) \o <<"0", "0", "5">>
    THEN IF x.lon.frac # <<>>
         THEN [x.lon EXCEPT !.frac = @ \o <<"0", "0", "5">>]
         ELSE IF x.fmt = "d"
              THEN [x.lon EXCEPT !.sec = DigitsToNat(Num(@) \o <<"0", "0", "5">>)]
              ELSE x.lon
    ELSE x.lon

Abs(n) == IF n < 0 THEN -n ELSE n
Max(a, b) == IF a > b THEN a ELSE b

\* millionths is within half a millionth of a degree of
\* minutes / 60 + seconds / 3600, the seconds counted in units of 10^-j
NearSeconds(millionths, units, j) ==
    2 * Abs(36 * Pow10(Max(j, 4) - 4) * millionths - units * Pow10(Max(j, 4) - j))
        <= 36 * Pow10(Max(j, 4) - 4)

\* rd is deg + min / 60 + sec / 3600 rounded to 6 decimals
Near6(rd, part) ==
    /\ Len(rd.frac) = 6
    /\ NearSeconds((rd.int - part.deg) * 1000000 + DigitsToNat(rd.frac),
                   (part.min * 60 + part.sec) * Pow10(Len(part.frac))
                       + DigitsToNat(part.frac),
                   Len(part.frac))

\* rd is deg + min / 60 rounded to 4 decimals
Near4(rd, part) ==
    /\ Len(rd.frac) = 4
    /\ 2 * Abs(6 * ((rd.int - part.deg) * 10000 + DigitsToNat(rd.frac)) - part.min * 1000)
           <= 6

\* out is the sample x in decimal degrees
Renders(out, x, lon) ==
    /\ out.t = "str"
    /\ IsCanonical(out.s)
    /\ Reading(LatText(out.s)).neg = (x.lat.dir = "S")
    /\ Reading(LonText(out.s)).neg = (lon.dir = "W")
    /\ IF x.fmt \in MinuteOnly
       THEN /\ Near4(Reading(LatText(out.s)), x.lat)
            /\ Near4(Reading(LonText(out.s)), lon)
       ELSE /\ Near6(Reading(LatText(out.s)), x.lat)
            /\ Near6(Reading(LonText(out.s)), lon)

\* C13: for a text in one of the notations a-h, the latitude and the
\* longitude of the result are degrees + minutes / 60 + seconds / 3600
\* (without seconds in the notations b and c), rounded to 4 decimals in the
\* notations b and c and to 6 in the others, with a minus sign exactly when
\* the hemisphere is S or W; 6449N14751W gives 64.8167, -147.8500 and
\* 010641N1040624E gives 1.111389, 104.106667.
C13_DecimalDegrees ==
    Called =>
        /\ sample # NoSample =>
               /\ Renders(single, sample, LonInText(sample, raw))
               /\ Renders(results[1], sample, LonInText(sample, raw))
        /\ raw = <<"6","4","4","9","N","1","4","7","5","1","W">> =>
               results[1].s = <<"6","4",".","8","1","6","7",",", " ",
                                "-","1","4","7",".","8","5","0","0">>
        /\ raw = <<"0","1","0","6","4","1","N","1","0","4","0","6","2","4","E">> =>
               results[1].s = <<"1",".","1","1","1","3","8","9",",", " ",
                                "1","0","4",".","1","0","6","6","6","7">>

\* a text with seconds and a fraction, in the southern and western
\* hemispheres, was converted
C13_Witness ==
    /\ Called
    /\ sample # NoSample
    /\ sample.fmt = "e"
    /\ sample.lat.dir = "S" /\ sample.lon.dir = "W"
    /\ sample.lat.frac # <<>> /\ sample.lon.frac # <<>>
    /\ Renders(results[1], sample, sample.lon)

\* the text before the first of the three separators in s
FirstSegment(s) ==
    LET starts == { p \in DOMAIN s :
                      \E k \in 1..Len(separators) : OccursAt(separators[k], s, p) }
        first == CHOOSE p \in starts : \A q \in starts : p <= q
    IN  SubSeq(s, 1, first - 1)

HasSeparator(s) == \E k \in 1..Len(separators) : Contains(separators[k], s)

\* the text before separator number k is recognized, and separator number k
\* is the first in the order ' - ', ', ', ',' of which that is true
FirstRecognized(s, k) ==
    /\ Contains(separators[k], s)
    /\ parse_single_coordinate(str_strip(FirstPart(s, separators[k]))) # PyNone
    /\ \A i \in 1..(k - 1) :
           Contains(separators[i], s) =>
               parse_single_coordinate(str_strip(FirstPart(s, separators[i]))) = PyNone

Segmented == Called /\ ~StartsCanonical(raw) /\ HasSeparator(raw)

\* C14 as stated: the result for a raw string that is not canonical and has a
\* separator in it is made from the text before the first separator alone:
\* the conversion of that text when it is recognized, and the raw string
\* unchanged when it is not.
C14_OnlyFirstSegment ==
    Segmented =>
        results[1] =
            ReturnIfTruthy(parse_single_coordinate(str_strip(FirstSegment(raw))),
                           PyStr(raw))

\* C14, amended: for a raw string that is not canonical and has a separator
\* in it, the separators ' - ', ', ' and ',' are taken in this order; the
\* result is the conversion of the text before the first one before which a
\* recognized text stands, whatever follows that separator; only when no
\* such text is recognized is the whole raw string parsed as one coordinate,
\* and returned unchanged if that is unrecognized too.  A text written in one
\* of the notations, followed by a separator and more text, gives the result
\* of that text alone.
C14_FirstRecognizedSegment ==
    Segmented =>
        /\ \A k \in 1..Len(separators) :
               FirstRecognized(raw, k) =>
                   results[1] =
                       parse_single_coordinate(str_strip(FirstPart(raw, separators[k])))
        /\ NoPartRecognized(raw) => results[1] = ReturnIfTruthy(single, PyStr(raw))
        /\ (sample # NoSample /\ raw # Write(sample)
                /\ \E tail \in Tails : raw = Write(sample) \o tail) =>
               results[1] = parse_coordinate(PyStr(Write(sample)))

\* the text before ' - ' is recognized and more coordinates follow: the
\* result is the conversion of that text and differs from the conversion of
\* the whole string
C14_Witness ==
    /\ Segmented
    /\ FirstRecognized(raw, 1)
    /\ results[1] # single
    /\ single # PyNone

(***************************************************************************)
(* Specification SpecBearing: parse_bearing applied to one value.          *)
(***************************************************************************)
InitBearing ==
    /\ pc = "start"
    /\ bearing_value \in BearingValues \ {Absent}
    /\ degrees = None
    /\ notam = None
    /\ result = None
    /\ notams = <<>>
    /\ idx = 0
    /\ relevant = <<>>
    /\ excluded = <<>>
    /\ exclusion_reasons = EmptyDict
    /\ loaded = <<>>
    /\ entry = EmptyDict
    /\ history = <<>>
    /\ NoCoordinate
    /\ NoItem /\ NoTools

ParseBearing ==
    /\ pc = "start"
    /\ degrees' = parse_bearing(bearing_value)
    /\ pc' = "parsed"
    /\ UNCHANGED <<notam, result, notams, idx, relevant, excluded, exclusion_reasons,
                   loaded, entry, history, bearing_value, coord_vars, item_vars, tool_vars>>

NextBearing == ParseBearing

SpecBearing == InitBearing /\ [][NextBearing]_vars

\* the 16 points of the compass clockwise from north, 22.5 degrees apart
CompassPoints ==
    << <<"N">>, <<"N","N","E">>, <<"N","E">>, <<"E","N","E">>,
       <<"E">>, <<"E","S","E">>, <<"S","E">>, <<"S","S","E">>,
       <<"S">>, <<"S","S","W">>, <<"S","W">>, <<"W","S","W">>,
       <<"W">>, <<"W","N","W">>, <<"N","W">>, <<"N","N","W">> >>

\* v is the number tenths / 10
IsTenths(v, tenths) == IsNum(v) /\ ToFloat(v) = NormFloat(tenths, -1)

AllDigits(s) == s # <<>> /\ \A i \in DOMAIN s : s[i] \in DIGITS
AllLetters(s) == \A i \in DOMAIN s : s[i] \in AsciiUpper

\* the text of a bearing string as parse_bearing reads it
Trimmed(v) == str_upper(str_strip(v.s))

BearingParsed == pc = "parsed"

\* C15: parse_bearing returns None for None.  Of a string, trimmed and
\* upper-cased, it returns the number the string denotes if it is a number
\* (a string of digits gives that number); else the value of the 16-point
\* compass table, (k - 1) * 22.5 for the k-th point clockwise from N, if
\* the string is one of the 16 points; else None (so for every other string
\* of letters that is no word for a float).  The result is None or a number,
\* the same for a string and for its trimmed upper-case form, and a
\* compass result lies in 0..337.5.
C15_CompassTable ==
    BearingParsed =>
        /\ degrees = PyNone \/ IsNum(degrees)
        /\ bearing_value = PyNone => degrees = PyNone
        /\ bearing_value.t = "str" =>
               /\ degrees = parse_bearing(PyStr(Trimmed(bearing_value)))
               /\ AllDigits(Trimmed(bearing_value)) =>
                      degrees = NormFloat(DigitsToNat(Trimmed(bearing_value)), 0)
               /\ \A k \in DOMAIN CompassPoints :
                      Trimmed(bearing_value) = CompassPoints[k] =>
                          /\ IsTenths(degrees, (k - 1) * 225)
                          /\ (k - 1) * 225 \in 0..3375
               /\ (/\ AllLetters(Trimmed(bearing_value))
                   /\ Trimmed(bearing_value) \notin Range(CompassPoints)
                   /\ Trimmed(bearing_value) \notin
                          { <<"I","N","F">>, <<"I","N","F","I","N","I","T","Y">>,
                            <<"N","A","N">> }) =>
                      degrees = PyNone

\* a compass point in mixed case between spaces gave its table value
C15_Witness ==
    /\ BearingParsed
    /\ bearing_value = PyStr(<<" ", "n", "N", "w", " ">>)
    /\ IsTenths(degrees, 3375)

\* the text of a number: digits, or digits, a point and digits, after an
\* optional sign
Signless(txt) == IF txt # <<>> /\ txt[1] \in {"-", "+"} THEN Tail(txt) ELSE txt
IsDecimal(u) ==
    \E p \in DOMAIN u :
        /\ u[p] = "."
        /\ AllDigits(SubSeq(u, 1, p - 1))
        /\ AllDigits(SubSeq(u, p + 1, Len(u)))
NumberOf(txt) ==
    NormFloat((IF txt[1] = "-" THEN -1 ELSE 1)
                  * (SecondsOf(Signless(txt)).int * Pow10(Len(SecondsOf(Signless(txt)).frac))
                     + DigitsToNat(SecondsOf(Signless(txt)).frac)),
              -Len(SecondsOf(Signless(txt)).frac))

\* C16: parse_bearing returns a number as the float of the same value, and
\* a string that is the text of a number as that number, without bringing
\* it into 0..360: 400, -10 and '720' come back as 400, -10 and 720.
C16_NoNormalization ==
    BearingParsed =>
        /\ IsNum(bearing_value) =>
               degrees.t = "float" /\ PyEq(degrees, bearing_value)
        /\ (/\ bearing_value.t = "str"
            /\ \/ AllDigits(Signless(Trimmed(bearing_value)))
               \/ IsDecimal(Signless(Trimmed(bearing_value)))) =>
               degrees = NumberOf(Trimmed(bearing_value))
        /\ bearing_value = PyInt(400) => degrees = [t |-> "float", m |-> 4, e |-> 2]
        /\ bearing_value = PyInt(-10) => degrees = [t |-> "float", m |-> -1, e |-> 1]
        /\ bearing_value = PyStr(<<"7","2","0">>) =>
               degrees = [t |-> "float", m |-> 72, e |-> 1]
        /\ bearing_value = PyStr(<<"-","1","0">>) =>
               degrees = [t |-> "float", m |-> -1, e |-> 1]

\* the int 400 came back as 400.0
C16_Witness ==
    /\ BearingParsed
    /\ bearing_value = PyInt(400)
    /\ degrees = [t |-> "float", m |-> 4, e |-> 2]

(***************************************************************************)
(* Specification SpecItem: fix_item applied to one record with up to       *)
(* MaxEntries runway entries, with runway_entries None, or without it.     *)
(***************************************************************************)
MaxEntries == 2

ItemEntries ==
    { MakeEntry(r, c, b) :
        r \in { Absent, PyStr(<<"A","L","L">>), PyStr(<<"0","9","L">>) },
        c \in { Absent, PyStr(<<"6","4","4","9","N","1","4","7","5","1","W">>), PyInt(5) },
        b \in { Absent, PyStr(<<"N","E">>) } }

MakeItem(entries, id) ==
    LET vals == [runway_entries |-> entries, notam_id |-> id]
    IN  [k \in { x \in DOMAIN vals : vals[x] # Absent } |-> vals[k]]

Items ==
    { MakeItem(entries, id) :
        entries \in { Absent, PyNone }
                    \cup { PyList(es) : es \in SeqsUpTo(ItemEntries, MaxEntries) },
        id \in { Absent, PyStr(<<"N","1">>) } }

InitItem ==
    /\ pc = "item"
    /\ record \in Items
    /\ record_loaded = record
    /\ notam = None
    /\ result = None
    /\ notams = <<>>
    /\ idx = 0
    /\ relevant = <<>>
    /\ excluded = <<>>
    /\ exclusion_reasons = EmptyDict
    /\ loaded = <<>>
    /\ entry = EmptyDict
    /\ history = <<>>
    /\ NoCoordinate
    /\ NoBearing /\ NoTools

ItemOutcome(returned) ==
    IF IsRaise(returned)
    THEN record' = ItemAfterRaise(record) /\ pc' = "raised"
    ELSE record' = returned /\ pc' = "fixed"

\* one call fix_item(record); record_loaded keeps the record as it was
FixItem ==
    /\ pc = "item"
    /\ ItemOutcome(fix_item(record))
    /\ UNCHANGED <<notam, result, notams, idx, relevant, excluded, exclusion_reasons,
                   loaded, entry, history, record_loaded, coord_vars, bearing_vars, tool_vars>>

NextItem == FixItem

SpecItem == InitItem /\ [][NextItem]_vars

SanitizedFields == {"runway", "obstacleCoordinates", "obstacleBearing"}

\* new is old but for the three fields
SameButSanitized(old, new) ==
    /\ DOMAIN new = DOMAIN old
    /\ \A k \in DOMAIN old \ SanitizedFields : new[k] = old[k]

ItemDone == pc \in {"fixed", "raised"}

\* C19: fix_item changes nothing but the fields runway, obstacleCoordinates
\* and obstacleBearing of the entries: the record has as many entries after
\* the call as before, in the same order (entry i is fix_runway_entry of
\* the former entry i), each with the same keys and the same values of all
\* other fields, and every other field of the record keeps its value; a
\* record without runway_entries gets the empty list.  The same holds of
\* the record a call that raised has left behind.
C19_OnlyThreeFields ==
    ItemDone =>
        /\ DOMAIN record \subseteq DOMAIN record_loaded \cup {"runway_entries"}
        /\ \A k \in DOMAIN record_loaded \ {"runway_entries"} :
               k \in DOMAIN record /\ record[k] = record_loaded[k]
        /\ EntriesOf(record_loaded).t # "list" => record = record_loaded
        /\ EntriesOf(record_loaded).t = "list" =>
               /\ EntriesOf(record).t = "list"
               /\ Len(EntriesOf(record).items) = Len(EntriesOf(record_loaded).items)
               /\ \A i \in DOMAIN EntriesOf(record_loaded).items :
                      /\ SameButSanitized(EntriesOf(record_loaded).items[i],
                                          EntriesOf(record).items[i])
                      /\ pc = "fixed" =>
                             EntriesOf(record).items[i]
                                 = fix_runway_entry(EntriesOf(record_loaded).items[i])

\* a record with two different entries, both rewritten, and another field
C19_Witness ==
    /\ pc = "fixed"
    /\ "notam_id" \in DOMAIN record
    /\ Len(EntriesOf(record_loaded).items) = 2
    /\ EntriesOf(record_loaded).items[1] # EntriesOf(record_loaded).items[2]
    /\ EntriesOf(record).items[1] # EntriesOf(record_loaded).items[1]
    /\ EntriesOf(record).items[2] # EntriesOf(record_loaded).items[2]
    /\ EntriesOf(record).items[1] # EntriesOf(record).items[2]

\* C20 as stated: no exception comes out of fix_item (nor of
\* fix_runway_entry and parse_coordinate, which it calls), whatever the
\* record holds: a record without runway_entries, with runway_entries None,
\* or with an entry whose coordinate is no text.
C20_NoException == pc # "raised"

\* C21: fix_item applies fix_runway_entry to every runway entry: after a call
\* that returned, entry i of the record is fix_runway_entry of the former
\* entry i, for every i, and no entry has runway 'ALL'.  A record without
\* runway_entries is tolerated: the call returns, and the record is as
\* before with the empty list under runway_entries.  A call raises only when
\* runway_entries is no list or fix_runway_entry raises on one of the
\* entries.
C21_EveryEntry ==
    ItemDone =>
        /\ "runway_entries" \notin DOMAIN record_loaded =>
               /\ pc = "fixed"
               /\ record = DictSet(record_loaded, "runway_entries", PyList(<<>>))
        /\ (pc = "fixed" /\ "runway_entries" \in DOMAIN record_loaded) =>
               /\ record_loaded["runway_entries"].t = "list"
               /\ DOMAIN record["runway_entries"].items
                      = DOMAIN record_loaded["runway_entries"].items
               /\ \A i \in DOMAIN record_loaded["runway_entries"].items :
                      /\ record["runway_entries"].items[i]
                             = fix_runway_entry(record_loaded["runway_entries"].items[i])
                      /\ DictGet(record["runway_entries"].items[i], "runway", Absent)
                             # PyStr(<<"A","L","L">>)
        /\ pc = "raised" =>
               \/ record_loaded["runway_entries"].t # "list"
               \/ \E i \in DOMAIN record_loaded["runway_entries"].items :
                      IsRaise(fix_runway_entry(record_loaded["runway_entries"].items[i]))

\* a record without runway_entries came back with the empty list
C21_Witness ==
    /\ pc = "fixed"
    /\ record_loaded = MakeItem(Absent, PyStr(<<"N","1">>))
    /\ record = MakeItem(PyList(<<>>), PyStr(<<"N","1">>))

SingleParsed == pc = "single"

\* one of the patterns a-h matches the whole of the text it is applied to
\* (fullmatch): coord_str is the stripped string
WholeMatch(coord_str, clean, upper, normalized) ==
    \/ re_match(PATTERN_DDMMSS \o <<End>>, clean).ok
    \/ re_match(PATTERN_DDMM \o <<End>>, clean).ok
    \/ re_match(PATTERN_DM_SYMBOLS \o <<End>>, upper).ok
    \/ re_match(PATTERN_PREFIX_SPACED \o <<End>>, upper).ok
    \/ re_match(PATTERN_DMS_SYMBOLS \o <<End>>, coord_str).ok
    \/ re_match(PATTERN_PREFIX_COMPACT \o <<End>>, upper).ok
    \/ re_match(PATTERN_DDMMSS \o <<End>>, normalized).ok
    \/ re_match(PATTERN_7_8_DIGITS \o <<End>>, clean).ok

WholeMatchOf(coord_str) ==
    WholeMatch(coord_str, Clean(coord_str), str_upper(coord_str),
               str_replace(Clean(coord_str), ",", <<".">>))

\* C22 as stated: parse_single_coordinate recognizes a string only when a
\* pattern matches the whole normalized string, so a coordinate followed by
\* further characters, as 6449N14751W005, is not recognized.
C22_WholeStringMatch ==
    SingleParsed =>
        /\ (single # PyNone /\ ~StartsCanonical(str_strip(raw))) =>
               WholeMatchOf(str_strip(raw))
        /\ raw = <<"6","4","4","9","N","1","4","7","5","1","W","0","0","5">> =>
               single = PyNone

\* the patterns a-h by their number in the order of the code, each with the
\* text it is applied to and the conversion of its branch
PatternNumbers == 1..8

PatternText(k, coord_str) ==
    CASE k \in {1, 2, 8} -> Clean(coord_str)
      [] k \in {3, 4, 6} -> str_upper(coord_str)
      [] k = 5 -> coord_str
      [] k = 7 -> str_replace(Clean(coord_str), ",", <<".">>)

PatternOf(k) ==
    CASE k \in {1, 7} -> PATTERN_DDMMSS
      [] k = 2 -> PATTERN_DDMM
      [] k = 3 -> PATTERN_DM_SYMBOLS
      [] k = 4 -> PATTERN_PREFIX_SPACED
      [] k = 5 -> PATTERN_DMS_SYMBOLS
      [] k = 6 -> PATTERN_PREFIX_COMPACT
      [] k = 8 -> PATTERN_7_8_DIGITS

ConvertWith(k, m, s) ==
    CASE k \in {1, 5, 7} -> ConvertDMS(m, s, SuffixGroups[1], SuffixGroups[2])
      [] k \in {2, 3} -> ConvertDM(m, s)
      [] k \in {4, 6} -> ConvertDMS(m, s, PrefixGroups[1], PrefixGroups[2])
      [] k = 8 -> Convert78(m, s)

Matching(coord_str) ==
    { k \in PatternNumbers : re_match(PatternOf(k), PatternText(k, coord_str)).ok }

ResultOfPattern(k, coord_str) ==
    PyStr(ConvertWith(k, re_match(PatternOf(k), PatternText(k, coord_str)),
                      PatternText(k, coord_str)))

Lowest(S) == CHOOSE k \in S : \A j \in S : k <= j

ResultOfFirst(M, coord_str) ==
    IF M = {} THEN PyNone ELSE ResultOfPattern(Lowest(M), coord_str)

\* C23: parse_single_coordinate tries the patterns in the order a, b, c, d,
\* e, f, g, h: for a string that is not in decimal format, the result is the
\* conversion by the first pattern in this order that matches, and None
\* when none matches.
C23_FixedOrder ==
    (SingleParsed /\ raw # <<>> /\ ~StartsCanonical(str_strip(raw))) =>
        single = ResultOfFirst(Matching(str_strip(raw)), str_strip(raw))

\* a text that pattern a and pattern g both match was converted
C23_Witness ==
    /\ SingleParsed
    /\ sample # NoSample
    /\ {1, 7} \subseteq Matching(str_strip(raw))
    /\ single = ResultOfPattern(1, str_strip(raw))

\* the match of pattern h on the raw string, and the text it is applied to
CleanRaw == Clean(str_strip(raw))
MatchH == re_match(PATTERN_7_8_DIGITS, CleanRaw)

\* pattern h decides the result
ByPatternH == SingleParsed /\ raw # <<>> /\ Matching(str_strip(raw)) = {8}

\* degrees, minutes and seconds out of the groups deg, deg + 1 and deg + 2 of
\* the match, the seconds group read as tenths of a second
TenthsPart(deg) ==
    [deg |-> DigitsToNat(Group(MatchH, CleanRaw, deg)),
     min |-> DigitsToNat(Group(MatchH, CleanRaw, deg + 1)),
     sec |-> DigitsToNat(Group(MatchH, CleanRaw, deg + 2)) \div 10,
     frac |-> NatToDigits(DigitsToNat(Group(MatchH, CleanRaw, deg + 2)) % 10)]

\* the same, the seconds group read as whole seconds
SecondsPart(deg) ==
    [deg |-> DigitsToNat(Group(MatchH, CleanRaw, deg)),
     min |-> DigitsToNat(Group(MatchH, CleanRaw, deg + 1)),
     sec |-> DigitsToNat(Group(MatchH, CleanRaw, deg + 2)),
     frac |-> <<>>]

SignsOfH ==
    /\ Reading(LatText(single.s)).neg = (Group(MatchH, CleanRaw, 4) = <<"S">>)
    /\ Reading(LonText(single.s)).neg = (Group(MatchH, CleanRaw, 8) = <<"W">>)

\* C24 as stated: pattern h accepts only a 7-digit latitude and an 8-digit
\* longitude; both seconds fields have 3 digits and are tenths of a second,
\* each divided by 10 before the conversion; the output has 6 decimals.
C24_SevenEightDigits ==
    ByPatternH =>
        /\ Len(Group(MatchH, CleanRaw, 3)) = 3
        /\ Len(Group(MatchH, CleanRaw, 7)) = 3
        /\ SignsOfH
        /\ Near6(Reading(LatText(single.s)), TenthsPart(1))
        /\ Near6(Reading(LonText(single.s)), TenthsPart(5))

\* C24, amended: pattern h accepts a 7-digit latitude (2 digits of degrees,
\* 2 of minutes, 3 of seconds) and a longitude of 7 or 8 digits (3 digits
\* of degrees, 2 of minutes, 2 or 3 of seconds).  The latitude seconds are
\* tenths of a second and are divided by 10; the longitude seconds are
\* divided by 10 when they have 3 digits and are whole seconds when they
\* have 2.  The output has 6 decimals, negative for S and W.
C24_PackedSeconds ==
    ByPatternH =>
        /\ Len(Group(MatchH, CleanRaw, 1)) = 2 /\ Len(Group(MatchH, CleanRaw, 2)) = 2
        /\ Len(Group(MatchH, CleanRaw, 3)) = 3
        /\ Len(Group(MatchH, CleanRaw, 5)) = 3 /\ Len(Group(MatchH, CleanRaw, 6)) = 2
        /\ Len(Group(MatchH, CleanRaw, 7)) \in {2, 3}
        /\ single.t = "str" /\ IsCanonical(single.s)
        /\ SignsOfH
        /\ Near6(Reading(LatText(single.s)), TenthsPart(1))
        /\ Near6(Reading(LonText(single.s)),
                 IF Len(Group(MatchH, CleanRaw, 7)) = 3
                 THEN TenthsPart(5) ELSE SecondsPart(5))

\* a 7-digit latitude with a 7-digit longitude was converted, the longitude
\* seconds taken as whole seconds
C24_Witness ==
    /\ ByPatternH
    /\ Len(Group(MatchH, CleanRaw, 7)) = 2
    /\ DigitsToNat(Group(MatchH, CleanRaw, 7)) > 0
    /\ Near6(Reading(LonText(single.s)), SecondsPart(5))

\* the sample is in the compact notation with a comma in a seconds field
CommaInSeconds ==
    /\ sample # NoSample
    /\ sample.fmt = "g"
    /\ (sample.lat.frac # <<>> \/ sample.lon.frac # <<>>)
    /\ Contains(<<",">>, raw)

\* C25: a compact coordinate with a comma as the decimal separator of a
\* seconds field is parsed by parse_coordinate as one coordinate: the result
\* is the latitude and the longitude of the whole text in decimal degrees
\* with 6 decimals, the comma read as a decimal point; it is what
\* parse_single_coordinate returns for the whole text and never the
\* unchanged input; 363818.4N 0062043,6W gives 36.638444, -6.345444.
C25_CommaIsDecimalPoint ==
    Called =>
        /\ CommaInSeconds =>
               /\ results[1] # PyStr(raw)
               /\ results[1] = single
               /\ Renders(results[1], sample, sample.lon)
               /\ Len(Reading(LatText(results[1].s)).frac) = 6
               /\ Len(Reading(LonText(results[1].s)).frac) = 6
        /\ raw = <<"3","6","3","8","1","8",".","4","N"," ",
                   "0","0","6","2","0","4","3",",","6","W">> =>
               results[1].s = <<"3","6",".","6","3","8","4","4","4",",", " ",
                                "-","6",".","3","4","5","4","4","4">>

\* the text 363818.4N 0062043,6W was converted to 36.638444, -6.345444
C25_Witness ==
    /\ Called
    /\ CommaInSeconds
    /\ raw = <<"3","6","3","8","1","8",".","4","N"," ",
               "0","0","6","2","0","4","3",",","6","W">>
    /\ results[1].s = <<"3","6",".","6","3","8","4","4","4",",", " ",
                        "-","6",".","3","4","5","4","4","4">>

\* the three rules by the field each is about
Rules == { "runway", "obstacleCoordinates", "obstacleBearing" }

\* one rule applied to an entry, or the exception raised before it
ApplyRule(rule, e) ==
    IF IsRaise(e) THEN e
    ELSE IF rule = "runway" THEN FixRunway(e)
    ELSE IF rule = "obstacleCoordinates" THEN FixCoordinates(e)
    ELSE FixBearing(e)

\* the six orders of the three rules
Orders == { o \in [1..3 -> Rules] : \A i, j \in 1..3 : o[i] = o[j] => i = j }

InOrder(o, e) == ApplyRule(o[3], ApplyRule(o[2], ApplyRule(o[1], e)))

\* the entry with the field of the rule only
OnlyField(rule, e) == [k \in DOMAIN e \cap {rule} |-> e[k]]

\* the rule leaves every other field of e as it is, and what it makes of
\* its own field is what it makes of it in an entry without the others
OwnFieldOnly(rule, e) ==
    \/ IsRaise(ApplyRule(rule, e)) /\ IsRaise(ApplyRule(rule, OnlyField(rule, e)))
    \/ /\ ~IsRaise(ApplyRule(rule, e))
       /\ DOMAIN ApplyRule(rule, e) \ {rule} = DOMAIN e \ {rule}
       /\ \A k \in DOMAIN e \ {rule} : ApplyRule(rule, e)[k] = e[k]
       /\ OnlyField(rule, ApplyRule(rule, e)) = ApplyRule(rule, OnlyField(rule, e))

\* C26: the three rules of fix_runway_entry are independent: each reads and
\* writes its own field only, and the three applied in any of the six
\* orders give the entry that fix_runway_entry returns; when the
\* coordinate rule raises, it raises in every order.
C26_AnyOrder ==
    /\ (pc \in {"fix", "raised"} /\ Len(history) = 1) =>
           \A rule \in Rules : OwnFieldOnly(rule, history[1])
    /\ (pc = "fix" /\ Len(history) >= 2) =>
           \A o \in Orders :
               InOrder(o, history[Len(history) - 1]) = history[Len(history)]
    /\ pc = "raised" =>
           \A o \in Orders : IsRaise(InOrder(o, history[Len(history)]))

\* each of the three rules rewrote its field, and every order of the rules
\* gives the entry returned
C26_Witness ==
    /\ Fixed
    /\ DictGet(history[1], "runway", PyNone) = PyStr(<<"A","L","L">>)
    /\ history[2]["runway"] = PyNone
    /\ DictGet(history[1], "obstacleBearing", PyNone) = PyStr(<<"N","E">>)
    /\ history[2]["obstacleBearing"] = PyInt(45)
    /\ DictGet(history[1], "obstacleCoordinates", PyNone)
           = PyStr(<<"6","4","4","9","N","1","4","7","5","1","W">>)
    /\ history[2]["obstacleCoordinates"] # history[1]["obstacleCoordinates"]
    /\ \A o \in Orders : InOrder(o, history[1]) = history[2]
    /\ Cardinality(Orders) = 6

(***************************************************************************)
(* fix_silver_labels.py : main                                             *)
(***************************************************************************)
\* a file on disk
FileOf(lines) == [exists |-> TRUE, lines |-> lines]

\* json.dumps(item, ensure_ascii=False) + "\n"
JsonLine(item) == [t |-> "json", value |-> item]
\* a line that is empty after strip(), and one json.loads rejects
BlankLine == [t |-> "blank"]
MalformedLine == [t |-> "malformed"]

\* the loop of lines 366-373: blank lines and lines that raise
\* JSONDecodeError are skipped
RECURSIVE LoadItems(_)
LoadItems(lines) ==
    IF lines = <<>> THEN <<>>
    ELSE IF Head(lines).t = "json" THEN <<Head(lines).value>> \o LoadItems(Tail(lines))
    ELSE LoadItems(Tail(lines))

\* the lines written by: for item in items: f.write(json.dumps(item) + "\n")
DumpItems(list) == [i \in DOMAIN list |-> JsonLine(list[i])]

\* str.isdigit()
str_isdigit(s) == s # <<>> /\ \A i \in DOMAIN s : s[i] \in DIGITS

\* lines 384-385
CountRunway(e) ==
    IF DictGet(e, "runway", PyNone) = PyStr(<<"A","L","L">>) THEN 1 ELSE 0

\* line 388: re.match on a value that is no str raises TypeError
MatchRaises(e) ==
    /\ Truthy(DictGet(e, "obstacleCoordinates", PyNone))
    /\ e["obstacleCoordinates"].t # "str"

\* lines 386-389, for an entry on which line 388 does not raise
CountCoordinates(e) ==
    IF ~Truthy(DictGet(e, "obstacleCoordinates", PyNone)) THEN 0
    ELSE IF re_match(DECIMAL_PATTERN, e["obstacleCoordinates"].s).ok THEN 0
    ELSE 1

\* lines 390-393
CountBearing(e) ==
    IF /\ Truthy(DictGet(e, "obstacleBearing", PyNone))
       /\ e["obstacleBearing"].t = "str"
       /\ ~str_isdigit(str_replace(str_replace(e["obstacleBearing"].s, ".", <<>>), "-", <<>>))
    THEN 1 ELSE 0

\* the scan of the entries of one item raises
ScanRaises(item) ==
    \/ EntriesOf(item).t # "list"
    \/ \E i \in DOMAIN EntriesOf(item).items :
           MatchRaises(EntriesOf(item).items[i])

RECURSIVE SumOver(_, _, _)
SumOver(entries, k, n) ==
    IF n > Len(entries) THEN 0
    ELSE (IF k = 1 THEN CountRunway(entries[n])
          ELSE IF k = 2 THEN CountCoordinates(entries[n])
          ELSE CountBearing(entries[n]))
         + SumOver(entries, k, n + 1)

RECURSIVE CountIssues(_, _, _)
CountIssues(list, k, n) ==
    IF n > Len(list) THEN 0
    ELSE SumOver(EntriesOf(list[n]).items, k, 1) + CountIssues(list, k, n + 1)

\* the loop of lines 383-393 raises TypeError
ScanFails(list) == \E n \in DOMAIN list : ScanRaises(list[n])

\* the loop of lines 383-393: all_runways, coords_to_fix, bearings_to_fix
ScanItems(list) ==
    <<CountIssues(list, 1, 1), CountIssues(list, 2, 1), CountIssues(list, 3, 1)>>

\* mutant: the test of line 400 never holds
NothingToFix_never(counts) == FALSE

\* line 400
NothingToFix(counts) == counts[1] = 0 /\ counts[2] = 0 /\ counts[3] = 0

\* line 412, [fix_item(item) for item in items], on the dict objects: the
\* items fixed in place, up to the first on which fix_item raises
FirstUnfixable(list) ==
    IF \E n \in DOMAIN list : IsRaise(fix_item(list[n]))
    THEN CHOOSE n \in DOMAIN list :
             /\ IsRaise(fix_item(list[n]))
             /\ \A m \in 1..(n - 1) : ~IsRaise(fix_item(list[m]))
    ELSE Len(list) + 1

FixItemsInPlace(list, stop) ==
    [n \in DOMAIN list |->
        IF n < stop THEN fix_item(list[n])
        ELSE IF n = stop THEN ItemAfterRaise(list[n])
        ELSE list[n]]

(***************************************************************************)
(* Specification SpecMain: one run of main of fix_silver_labels.py on a     *)
(* dataset file of a few lines, step by step from one file operation to    *)
(* the next; the process may be killed between any two steps.              *)
(***************************************************************************)
MainEntries == {
    MakeEntry(PyStr(<<"0","9","L">>),
              PyStr(<<"6","4",".","8","1","6","7",",", " ","-","1","4","7",".","8","5","0","0">>),
              PyInt(45)),
    MakeEntry(PyStr(<<"A","L","L">>), Absent, Absent),
    MakeEntry(PyStr(<<"0","9","L">>),
              PyStr(<<"6","4","4","9","N","1","4","7","5","1","W">>), PyStr(<<"N","E">>)),
    MakeEntry(Absent, PyStr(<<"A","B","C">>), PyStr(<<"4","5">>)),
    MakeEntry(Absent, PyInt(5), Absent) }

MainItems ==
    { MakeItem(PyList(<<e>>), PyStr(<<"N","1">>)) : e \in MainEntries }
    \cup { MakeItem(PyNone, PyStr(<<"N","1">>)),
           MakeItem(Absent, PyStr(<<"N","1">>)),
           MakeItem(PyList(<<>>), PyStr(<<"N","1">>)) }

MainLines == { JsonLine(item) : item \in MainItems } \cup { BlankLine, MalformedLine }

\* a backup left by an earlier run
OldBackup == FileOf(<<JsonLine(MakeItem(PyList(<<>>), PyStr(<<"N","0">>)))>>)

InitMain ==
    /\ pc = "main"
    /\ \/ silver_file = NoFile
       \/ \E lines \in SeqsUpTo(MainLines, MaxLines) : silver_file = FileOf(lines)
    /\ backup_file \in { NoFile, OldBackup }
    /\ items = <<>>
    /\ items_loaded = <<>>
    /\ fixed_items = <<>>
    /\ issues = <<0, 0, 0>>
    /\ cursor = 0
    /\ notam = None
    /\ result = None
    /\ notams = <<>>
    /\ idx = 0
    /\ relevant = <<>>
    /\ excluded = <<>>
    /\ exclusion_reasons = EmptyDict
    /\ loaded = <<>>
    /\ entry = EmptyDict
    /\ history = <<>>
    /\ NoCoordinate /\ NoBearing /\ NoItem /\ NoReview /\ NoGenerator

library_vars == <<notam, result, notams, idx, relevant, excluded, exclusion_reasons,
                  loaded, entry, history, coord_vars, bearing_vars, item_vars,
                  generator_vars>>

\* lines 359-375: the file is missing, or its items are loaded
MainLoad ==
    /\ pc = "main"
    /\ IF silver_file.exists
       THEN /\ items' = LoadItems(silver_file.lines)
            /\ items_loaded' = LoadItems(silver_file.lines)
            /\ pc' = "loaded"
       ELSE /\ pc' = "returned"
            /\ UNCHANGED <<items, items_loaded>>
    /\ UNCHANGED <<silver_file, backup_file, fixed_items, issues, cursor, library_vars, review_vars>>

\* lines 378-402: the counts, and the return when there is nothing to fix
MainScan ==
    /\ pc = "loaded"
    /\ IF ScanFails(items)
       THEN pc' = "raised" /\ UNCHANGED issues
       ELSE /\ issues' = ScanItems(items)
            /\ pc' = IF NothingToFix(ScanItems(items)) THEN "returned" ELSE "backup"
    /\ UNCHANGED <<silver_file, backup_file, items, items_loaded, fixed_items, cursor,
                   library_vars, review_vars>>

\* line 406: open(BACKUP_FILE, "w")
OpenBackup ==
    /\ pc = "backup"
    /\ backup_file' = FileOf(<<>>)
    /\ cursor' = 0
    /\ pc' = "backup_write"
    /\ UNCHANGED <<silver_file, items, items_loaded, fixed_items, issues, library_vars, review_vars>>

\* lines 407-408: one item written
WriteBackup ==
    /\ pc = "backup_write"
    /\ cursor < Len(items)
    /\ backup_file' = FileOf(Append(backup_file.lines, JsonLine(items[cursor + 1])))
    /\ cursor' = cursor + 1
    /\ UNCHANGED <<pc, silver_file, items, items_loaded, fixed_items, issues, library_vars, review_vars>>

\* the end of the with block of line 406
CloseBackup ==
    /\ pc = "backup_write"
    /\ cursor = Len(items)
    /\ pc' = "fix"
    /\ UNCHANGED <<main_vars, library_vars, review_vars>>

\* line 412: the items are fixed in place
MainFix ==
    /\ pc = "fix"
    /\ items' = FixItemsInPlace(items, FirstUnfixable(items))
    /\ IF FirstUnfixable(items) <= Len(items)
       THEN pc' = "raised" /\ UNCHANGED fixed_items
       ELSE pc' = "save" /\ fixed_items' = items'
    /\ UNCHANGED <<silver_file, backup_file, items_loaded, issues, cursor, library_vars, review_vars>>

\* line 416: open(SILVER_FILE, "w")
OpenSilver ==
    /\ pc = "save"
    /\ silver_file' = FileOf(<<>>)
    /\ cursor' = 0
    /\ pc' = "save_write"
    /\ UNCHANGED <<backup_file, items, items_loaded, fixed_items, issues, library_vars, review_vars>>

\* lines 417-418: one item written
WriteSilver ==
    /\ pc = "save_write"
    /\ cursor < Len(fixed_items)
    /\ silver_file' = FileOf(Append(silver_file.lines, JsonLine(fixed_items[cursor + 1])))
    /\ cursor' = cursor + 1
    /\ UNCHANGED <<pc, backup_file, items, items_loaded, fixed_items, issues, library_vars, review_vars>>

\* the end of the with block of line 416, and the counts of lines 421-445,
\* which are printed only
CloseSilver ==
    /\ pc = "save_write"
    /\ cursor = Len(fixed_items)
    /\ pc' = "done"
    /\ UNCHANGED <<main_vars, library_vars, review_vars>>

MainRunning == { "main", "loaded", "backup", "backup_write", "fix", "save", "save_write" }

\* the process is killed
MainKilled ==
    /\ pc \in MainRunning
    /\ pc' = "killed"
    /\ UNCHANGED <<main_vars, library_vars, review_vars>>

NextMain ==
    \/ MainLoad \/ MainScan
    \/ OpenBackup \/ WriteBackup \/ CloseBackup
    \/ MainFix
    \/ OpenSilver \/ WriteSilver \/ CloseSilver
    \/ MainKilled

SpecMain == InitMain /\ [][NextMain]_vars

\* the backup file holds every item as it was loaded, and is closed
BackupComplete ==
    /\ pc \in { "fix", "save", "save_write" }
    /\ backup_file = FileOf(DumpItems(items_loaded))

\* the scan is over and counted something
CountedSomething == pc \notin { "main", "loaded" } /\ issues # <<0, 0, 0>>

\* C27: in every run of main, a step changes the dataset file only when the
\* backup file has been written completely, with every item as it was
\* loaded, and closed; and no step changes the backup or the dataset file
\* before the scan is over or when the scan counted no 'ALL' runway, no
\* coordinate to convert and no bearing to convert.
C27_BackupBeforeOverwrite ==
    [][/\ silver_file' # silver_file =>
              BackupComplete /\ backup_file' = backup_file
       /\ (silver_file' # silver_file \/ backup_file' # backup_file) =>
              CountedSomething]_vars

\* a run came to its end: the backup holds the items as loaded, the dataset
\* file the fixed items, which differ
C27_Witness ==
    /\ pc = "done"
    /\ Len(items_loaded) = MaxLines
    /\ backup_file = FileOf(DumpItems(items_loaded))
    /\ silver_file = FileOf(DumpItems(fixed_items))
    /\ fixed_items # items_loaded

(***************************************************************************)
(* review_tool.py : main and review_item                                   *)
(* Confidences are counted in tenths: 10 is 1.0.  An entry is modelled by  *)
(* its confidence, the one field the tool computes with.                   *)
(***************************************************************************)
\* save_jsonl(items, filepath): the file as written
save_jsonl(list) == FileOf(DumpItems(list))

\* update_min_confidence(item)
update_min_confidence(item) ==
    LET runway_entries == DictGet(item, "runway_entries", <<>>)
        confidences == { DictGet(runway_entries[i], "confidence", 10) :
                            i \in DOMAIN runway_entries }
    IN  DictSet(item, "min_confidence",
                IF runway_entries # <<>>
                THEN CHOOSE c \in confidences : \A d \in confidences : c <= d
                ELSE 10)

\* command a: add_runway_entry(item), then update_min_confidence(item)
AddEntry(item) ==
    update_min_confidence(
        DictSet(item, "runway_entries",
                Append(DictGet(item, "runway_entries", <<>>), [confidence |-> 10])))

\* runway_entries.pop(k - 1)
Pop(list, k) == [i \in 1..(Len(list) - 1) |-> IF i < k THEN list[i] ELSE list[i + 1]]

\* command d with the answer k: delete_runway_entry(item), then
\* update_min_confidence(item)
DeleteEntry(item, k) ==
    IF k \in DOMAIN DictGet(item, "runway_entries", <<>>)
    THEN update_min_confidence(
             DictSet(item, "runway_entries", Pop(item["runway_entries"], k)))
    ELSE update_min_confidence(item)

\* command e on entry k, field confidence, new value c; without entries the
\* command does nothing
EditEntry(item, k, c) ==
    IF k \in DOMAIN DictGet(item, "runway_entries", <<>>)
    THEN update_min_confidence(
             DictSet(item, "runway_entries",
                     [item["runway_entries"] EXCEPT ![k] = DictSet(@, "confidence", c)]))
    ELSE item

NoEdit == [cmd |-> "none"]
EditCommands ==
    { NoEdit, [cmd |-> "a"] }
    \cup { [cmd |-> "d", k |-> k] : k \in 1..2 }
    \cup { [cmd |-> "e", k |-> 1, c |-> 2] }

\* the item after the edit command, and item_modified
Edited(item, ed) ==
    IF ed.cmd = "a" THEN [item |-> AddEntry(item), modified |-> TRUE]
    ELSE IF ed.cmd = "d"
    THEN [item |-> DeleteEntry(item, ed.k),
          modified |-> ed.k \in DOMAIN DictGet(item, "runway_entries", <<>>)]
    ELSE IF ed.cmd = "e"
    THEN [item |-> EditEntry(item, ed.k, ed.c),
          modified |-> DictGet(item, "runway_entries", <<>>) # <<>>]
    ELSE [item |-> item, modified |-> FALSE]

\* random.sample(list, n): n elements at different positions, in any order
RandomSamples(list, n) ==
    { [i \in 1..n |-> list[f[i]]] :
        f \in { g \in [1..n -> DOMAIN list] : \A i, j \in 1..n : g[i] = g[j] => i = j } }

\* items.sort(key=lambda x: x.get("min_confidence", 1.0)): stable
SortKey(item) == DictGet(item, "min_confidence", 10)
SortedByConfidence(list) ==
    LET order == CHOOSE f \in [DOMAIN list -> DOMAIN list] :
                     /\ \A i, j \in DOMAIN list : f[i] = f[j] => i = j
                     /\ \A i, j \in DOMAIN list :
                            i < j => \/ SortKey(list[f[i]]) < SortKey(list[f[j]])
                                     \/ /\ SortKey(list[f[i]]) = SortKey(list[f[j]])
                                        /\ f[i] < f[j]
    IN  [i \in DOMAIN list |-> list[order[i]]]

(***************************************************************************)
(* Specification SpecReview: one session of the review tool, from the      *)
(* command line to the end of main; the reviewer's commands are chosen     *)
(* freely.                                                                 *)
(***************************************************************************)
ReviewItems == {
    [notam_id |-> PyStr(<<"N","1">>), min_confidence |-> 5,
     runway_entries |-> <<[confidence |-> 5]>>],
    [notam_id |-> PyStr(<<"N","2">>), runway_entries |-> <<>>],
    [notam_id |-> PyStr(<<"N","3">>), min_confidence |-> 3] }

\* dataset files: every item at most once
ReviewFiles ==
    { FileOf(DumpItems(list)) :
        list \in { l \in SeqsUpTo(ReviewItems, MaxLines) :
                     \A i, j \in DOMAIN l : l[i] = l[j] => i = j } }

CommandLines ==
    { [low_confidence |-> b] : b \in BOOLEAN }
    \cup { [low_confidence |-> b, random |-> n] : b \in BOOLEAN, n \in {-1, 0, 1, MaxLines} }

InitReview ==
    /\ pc = "review_main"
    /\ args \in CommandLines
    /\ silver_file \in ReviewFiles \cup {NoFile}
    /\ low_confidence_file \in
           { NoFile, FileOf(<<MalformedLine>>),
             FileOf(DumpItems(<<CHOOSE x \in ReviewItems : x["notam_id"] = PyStr(<<"N","1">>),
                                CHOOSE x \in ReviewItems : x["notam_id"] = PyStr(<<"N","3">>)>>)) }
    /\ output_file = None
    /\ index = 0
    /\ has_changes = FALSE
    /\ edits = 0
    /\ backup_file = NoFile
    /\ items = <<>>
    /\ items_loaded = <<>>
    /\ fixed_items = <<>>
    /\ issues = <<0, 0, 0>>
    /\ cursor = 0
    /\ notam = None
    /\ result = None
    /\ notams = <<>>
    /\ idx = 0
    /\ relevant = <<>>
    /\ excluded = <<>>
    /\ exclusion_reasons = EmptyDict
    /\ loaded = <<>>
    /\ entry = EmptyDict
    /\ history = <<>>
    /\ NoCoordinate /\ NoBearing /\ NoItem /\ NoGenerator

\* the file named by output_file
FileNamed(name) ==
    IF name = "LOW_CONFIDENCE_FILE" THEN low_confidence_file ELSE silver_file

\* lines 554-570: the sample when --random is given, then the sort
StartReview(list) ==
    /\ items_loaded' = list
    /\ index' = 0
    /\ has_changes' = FALSE
    /\ IF list = <<>>
       THEN pc' = "returned" /\ items' = list
       ELSE IF "random" \in DOMAIN args /\ args.random # 0 /\ args.random < Len(list)
       THEN IF args.random < 0
            THEN pc' = "raised" /\ items' = list
            ELSE /\ pc' = "review"
                 /\ \E picked \in RandomSamples(list, args.random) :
                        items' = SortedByConfidence(picked)
       ELSE pc' = "review" /\ items' = SortedByConfidence(list)

\* lines 523-570: the command line, the file, the sample and the sort
ReviewStart ==
    /\ pc = "review_main"
    /\ output_file' = IF args.low_confidence THEN "LOW_CONFIDENCE_FILE" ELSE "SILVER_FILE"
    /\ IF FileNamed(output_file').exists
       THEN StartReview(LoadItems(FileNamed(output_file').lines))
       ELSE pc' = "exited" /\ UNCHANGED <<items, items_loaded, index, has_changes>>
    /\ UNCHANGED <<silver_file, low_confidence_file, args, edits>>
    /\ UNCHANGED <<backup_file, fixed_items, issues, cursor, library_vars>>

Commands(total) ==
    { <<"next">>, <<"prev">>, <<"save">>, <<"quit">> }
    \cup { <<"goto", k>> : k \in 0..(total - 1) }

\* lines 577-591: what the loop does with the action review_item returned
AfterAction(action, changes, answer) ==
    IF action[1] = "next"
    THEN /\ index' = index + 1
         /\ has_changes' = changes
         /\ pc' = IF index + 1 < Len(items) THEN "review" ELSE "ended"
    ELSE IF action[1] = "prev"
    THEN /\ index' = IF index - 1 > 0 THEN index - 1 ELSE 0
         /\ has_changes' = changes
         /\ pc' = "review"
    ELSE IF action[1] = "goto"
    THEN /\ index' = action[2]
         /\ has_changes' = changes
         /\ pc' = "review"
    ELSE IF action[1] = "save"
    THEN /\ has_changes' = TRUE
         /\ pc' = "ended"
         /\ UNCHANGED index
    ELSE /\ has_changes' = (changes /\ answer = "y")
         /\ pc' = "ended"
         /\ UNCHANGED index

\* one turn of the loop of line 572: review_item on items[index], with at
\* most one edit command before the command that returns
ReviewItem ==
    /\ pc = "review"
    /\ \E ed \in EditCommands, action \in Commands(Len(items)), answer \in {"y", "n"} :
          /\ ed # NoEdit => edits < MaxEdits
          /\ edits' = IF ed = NoEdit THEN edits ELSE edits + 1
          /\ items' = [items EXCEPT ![index + 1] = Edited(@, ed).item]
          /\ AfterAction(action, has_changes \/ Edited(items[index + 1], ed).modified, answer)
    /\ UNCHANGED <<silver_file, low_confidence_file, args, output_file, items_loaded>>
    /\ UNCHANGED <<backup_file, fixed_items, issues, cursor, library_vars>>

\* save_jsonl(items, output_file)
SaveItems ==
    /\ pc' = "saved"
    /\ IF output_file = "LOW_CONFIDENCE_FILE"
       THEN low_confidence_file' = save_jsonl(items) /\ UNCHANGED silver_file
       ELSE silver_file' = save_jsonl(items) /\ UNCHANGED low_confidence_file

\* lines 594-612
ReviewFinish ==
    /\ pc = "ended"
    /\ \E answer \in {"y", "n"} :
          IF has_changes \/ (index >= Len(items) /\ answer = "y")
          THEN SaveItems
          ELSE pc' = "unsaved" /\ UNCHANGED <<silver_file, low_confidence_file>>
    /\ UNCHANGED <<args, output_file, index, has_changes, edits, items, items_loaded>>
    /\ UNCHANGED <<backup_file, fixed_items, issues, cursor, library_vars>>

NextReview == ReviewStart \/ ReviewItem \/ ReviewFinish

SpecReview == InitReview /\ [][NextReview]_vars

\* the notam_id of the items in a file
IdsIn(file) == { file.lines[i].value["notam_id"] : i \in DOMAIN file.lines }

\* C28 as stated: whenever the review tool has written its output file, the
\* file holds every item that was loaded from it (edited, maybe, but none
\* dropped), whatever the commands and the flags were.
C28_EveryItemWritten ==
    pc = "saved" =>
        \A i \in DOMAIN items_loaded :
            items_loaded[i]["notam_id"] \in IdsIn(FileNamed(output_file))

(***************************************************************************)
(* generate_silver_labels.py : extract_notam_data under the semaphore of   *)
(* process_notams_async.  The tasks differ in nothing the semaphore sees,  *)
(* so the model counts them: created (not yet run), waiting for the        *)
(* semaphore (semaphore.waiters), woken by a release but not yet resumed   *)
(* (semaphore.woken), inside the guarded section with the request under    *)
(* way, returned, raised, cancelled.                                       *)
(***************************************************************************)
MAX_CONCURRENT == 20

\* asyncio.Semaphore(MAX_CONCURRENT)
NewSemaphore == [value |-> MAX_CONCURRENT, waiters |-> 0, woken |-> 0]

\* Semaphore.locked(): no slot is free, or a waiter stands in the queue
locked(sem) == sem.value = 0 \/ sem.waiters + sem.woken > 0

\* Semaphore._wake_up_next(): the first waiter that is not done gets a slot
wake_up_next(sem) ==
    IF sem.waiters > 0
    THEN [value |-> sem.value - 1, waiters |-> sem.waiters - 1, woken |-> sem.woken + 1]
    ELSE sem

\* Semaphore.release()
release(sem) == wake_up_next([sem EXCEPT !.value = @ + 1])

\* what ends a request: a response that parses, one that does not (line
\* 140), an exception of the client or of the parsing (line 162)
Outcomes == { "result", "unparsable", "exception" }

\* mutant: the slot is kept when the request raised
Releases_unless_exception(outcome) == outcome # "exception"

\* async with semaphore (line 115): the slot is released however the block
\* is left
Releases(outcome) == TRUE

InitSemaphore ==
    /\ pc = "gather"
    /\ semaphore = NewSemaphore
    /\ \E n \in 0..MaxTasks :
          tasks = [created |-> n, inside |-> 0, returned |-> 0, raised |-> 0,
                   cancelled |-> 0, total |-> n]
    /\ notam = None
    /\ result = None
    /\ notams = <<>>
    /\ idx = 0
    /\ relevant = <<>>
    /\ excluded = <<>>
    /\ exclusion_reasons = EmptyDict
    /\ loaded = <<>>
    /\ entry = EmptyDict
    /\ history = <<>>
    /\ NoCoordinate /\ NoBearing /\ NoItem /\ NoMain /\ NoReview /\ NoRuns

other_vars == <<notam, result, notams, idx, relevant, excluded, exclusion_reasons,
                loaded, entry, history, coord_vars, bearing_vars, item_vars,
                main_vars, review_vars, run_vars>>

\* lines 107-111: a task runs and returns None for a blank notam_text
TaskReturnsEarly ==
    /\ pc = "gather"
    /\ tasks.created > 0
    /\ tasks' = [tasks EXCEPT !.created = @ - 1, !.returned = @ + 1]
    /\ UNCHANGED <<pc, semaphore, other_vars>>

\* line 110: notam_text is null in the record, and strip() raises
TaskRaisesEarly ==
    /\ pc = "gather"
    /\ tasks.created > 0
    /\ tasks' = [tasks EXCEPT !.created = @ - 1, !.raised = @ + 1]
    /\ UNCHANGED <<pc, semaphore, other_vars>>

\* line 115: a task runs up to the semaphore: it takes a slot and sends
\* its request (line 117), or joins the waiters
TaskAcquires ==
    /\ pc = "gather"
    /\ tasks.created > 0
    /\ IF locked(semaphore)
       THEN /\ semaphore' = [semaphore EXCEPT !.waiters = @ + 1]
            /\ tasks' = [tasks EXCEPT !.created = @ - 1]
       ELSE /\ semaphore' = [semaphore EXCEPT !.value = @ - 1]
            /\ tasks' = [tasks EXCEPT !.created = @ - 1, !.inside = @ + 1]
    /\ UNCHANGED <<pc, other_vars>>

\* the end of Semaphore.acquire() for a woken waiter, which then sends its
\* request
WokenResumes ==
    /\ pc = "gather"
    /\ semaphore.woken > 0
    /\ semaphore' = IF semaphore.value > 0
                    THEN wake_up_next([semaphore EXCEPT !.woken = @ - 1])
                    ELSE [semaphore EXCEPT !.woken = @ - 1]
    /\ tasks' = [tasks EXCEPT !.inside = @ + 1]
    /\ UNCHANGED <<pc, other_vars>>

\* lines 117-164: the request of a task ends, the task leaves the guarded
\* section and returns
RequestEnds ==
    /\ pc = "gather"
    /\ tasks.inside > 0
    /\ \E outcome \in Outcomes :
          semaphore' = IF Releases(outcome) THEN release(semaphore) ELSE semaphore
    /\ tasks' = [tasks EXCEPT !.inside = @ - 1, !.returned = @ + 1]
    /\ UNCHANGED <<pc, other_vars>>

\* line 175: await coro raises what a task raised; asyncio.run (line 289)
\* cancels the tasks that are left: those not yet run and those waiting for
\* the semaphore end at once
ConsumerRaises ==
    /\ pc = "gather"
    /\ tasks.raised > 0
    /\ pc' = "aborted"
    /\ tasks' = [tasks EXCEPT !.created = 0,
                              !.cancelled = @ + tasks.created + semaphore.waiters]
    /\ semaphore' = [semaphore EXCEPT !.waiters = 0]
    /\ UNCHANGED other_vars

\* a cancelled task leaves the guarded section: CancelledError is no
\* Exception (line 162), and async with releases the slot
CancelledInside ==
    /\ pc = "aborted"
    /\ tasks.inside > 0
    /\ semaphore' = release(semaphore)
    /\ tasks' = [tasks EXCEPT !.inside = @ - 1, !.cancelled = @ + 1]
    /\ UNCHANGED <<pc, other_vars>>

\* a cancelled task that had been woken gives its slot back in acquire()
CancelledWoken ==
    /\ pc = "aborted"
    /\ semaphore.woken > 0
    /\ semaphore' = wake_up_next([semaphore EXCEPT !.woken = @ - 1, !.value = @ + 1])
    /\ tasks' = [tasks EXCEPT !.cancelled = @ + 1]
    /\ UNCHANGED <<pc, other_vars>>

\* the tasks that have completed
Completed == tasks.returned + tasks.raised + tasks.cancelled

\* line 183, or the end of asyncio.run: every task has completed
GatherEnds ==
    /\ pc \in { "gather", "aborted" }
    /\ pc = "gather" => tasks.raised = 0
    /\ Completed = tasks.total
    /\ pc' = "closed"
    /\ UNCHANGED <<semaphore, tasks, other_vars>>

NextSemaphore ==
    \/ TaskReturnsEarly \/ TaskRaisesEarly \/ TaskAcquires
    \/ WokenResumes \/ RequestEnds
    \/ ConsumerRaises \/ CancelledInside \/ CancelledWoken
    \/ GatherEnds

SpecSemaphore == InitSemaphore /\ [][NextSemaphore]_vars

\* the event loop runs every task that can run, and every request ends,
\* by a response or by an exception of the client
SpecSemaphoreLive == SpecSemaphore /\ WF_vars(NextSemaphore)

\* C29: at most MAX_CONCURRENT (20) requests are inside the guarded section
\* at any moment, for any number of tasks and any order in which they
\* complete; a slot is held only by a task inside the section or woken to
\* enter it, so none is leaked, whether the requests give a result, an
\* unparsable response or an exception; and every task completes in the
\* end, all 20 slots free again.
C29_BoundedAndReleased ==
    /\ [](/\ tasks.inside <= 20
          /\ semaphore.value >= 0
          /\ semaphore.value + tasks.inside + semaphore.woken = 20)
    /\ <>(pc = "closed")
    /\ [](pc = "closed" => Completed = tasks.total /\ semaphore.value = 20)

\* 20 requests are under way, a task waits, and a returned task's slot has
\* been passed on
C29_Witness ==
    /\ pc = "gather"
    /\ tasks.inside = 20
    /\ semaphore.waiters > 0
    /\ tasks.returned > 0
    /\ tasks.total = MaxTasks

(***************************************************************************)
(* generate_silver_labels.py : main_async and process_notams_async, run    *)
(* after run on the same files.  OUTPUT_FILE is the dataset file           *)
(* (silver_file); a NOTAM is its notam_id and its notam_text.              *)
(***************************************************************************)
\* lines 207-217: the notam_id of every line of OUTPUT_FILE that parses
ExistingIds(file) ==
    { file.lines[i].value["notam_id"] :
        i \in { j \in DOMAIN file.lines : file.lines[j].t = "json" } }

\* line 220
NotamsToProcess(list, ids) == SelectSeq(list, LAMBDA n : n["notam_id"] \notin ids)

\* lines 107-111: a task with a blank text returns None at once; the others
\* send their request: with at most MAX_CONCURRENT tasks none waits
Started(n) ==
    [notam |-> n, state |-> IF str_strip(n["notam_text"].s) = <<>> THEN "none" ELSE "sent"]

\* lines 124-160: the record made of the response "[]": no runway entry,
\* min_confidence 1.0 (in tenths); notam.get of a key the NOTAM lacks is None
Extraction(n) ==
    [notam_id |-> n["notam_id"], icao_location |-> PyNone,
     notam_text |-> n["notam_text"], effective_start |-> PyNone,
     effective_end |-> PyNone, runway_entries |-> PyList(<<>>),
     min_confidence |-> 10]

\* line 180, open(OUTPUT_FILE, "a"), and line 181
AppendLine(file, line) == FileOf(Append(file.lines, line))

GeneratorNotams ==
    { [notam_id |-> PyStr(id), notam_text |-> PyStr(text)] :
        id \in { <<"N","1">>, <<"N","2">> },
        text \in { <<"R","W","Y">>, <<" ">> } }

InitGenerate ==
    /\ pc = "idle"
    /\ input_file \in SeqsUpTo(GeneratorNotams, MaxNotams)
    /\ silver_file \in
           { NoFile, FileOf(<<MalformedLine>>),
             FileOf(<<JsonLine(Extraction(CHOOSE n \in GeneratorNotams :
                          n = [notam_id |-> PyStr(<<"N","1">>),
                               notam_text |-> PyStr(<<"R","W","Y">>)]))>>) }
    /\ existing_ids = {}
    /\ requests = <<>>
    /\ sent_log = <<>>
    /\ runs = 0
    /\ backup_file = NoFile
    /\ items = <<>>
    /\ items_loaded = <<>>
    /\ fixed_items = <<>>
    /\ issues = <<0, 0, 0>>
    /\ cursor = 0
    /\ notam = None
    /\ result = None
    /\ notams = <<>>
    /\ idx = 0
    /\ relevant = <<>>
    /\ excluded = <<>>
    /\ exclusion_reasons = EmptyDict
    /\ loaded = <<>>
    /\ entry = EmptyDict
    /\ history = <<>>
    /\ NoCoordinate /\ NoBearing /\ NoItem /\ NoReview /\ NoSemaphore

rest_vars == <<notam, result, notams, idx, relevant, excluded, exclusion_reasons,
               loaded, entry, history, coord_vars, bearing_vars, item_vars,
               backup_file, items, items_loaded, fixed_items, issues, cursor,
               review_vars, semaphore_vars>>

\* the requests a list of started tasks has sent
SentBy(started, file) ==
    [i \in DOMAIN SelectSeq(started, LAMBDA r : r.state = "sent") |->
        [notam_id |-> SelectSeq(started, LAMBDA r : r.state = "sent")[i].notam["notam_id"],
         recorded |-> SelectSeq(started, LAMBDA r : r.state = "sent")[i].notam["notam_id"]
                          \in ExistingIds(file)]]

\* lines 186-229 and 167-171: a run starts: the ids of OUTPUT_FILE are read,
\* the NOTAMs that are left get a task each, and the tasks run up to their
\* request
RunStarts ==
    /\ pc = "idle"
    /\ runs < MaxRuns
    /\ runs' = runs + 1
    /\ existing_ids' = IF silver_file.exists THEN ExistingIds(silver_file) ELSE {}
    /\ requests' = [i \in DOMAIN NotamsToProcess(input_file, existing_ids') |->
                       Started(NotamsToProcess(input_file, existing_ids')[i])]
    /\ sent_log' = sent_log \o SentBy(requests', silver_file)
    /\ pc' = IF requests' = <<>> THEN "idle" ELSE "processing"
    /\ UNCHANGED <<input_file, silver_file, rest_vars>>

\* lines 117-164: the request of task i ends
RequestReturns ==
    /\ pc = "processing"
    /\ \E i \in DOMAIN requests, outcome \in Outcomes :
          /\ requests[i].state = "sent"
          /\ requests' = [requests EXCEPT
                             ![i].state = IF outcome = "result" THEN "result" ELSE "none"]
    /\ UNCHANGED <<pc, input_file, silver_file, existing_ids, sent_log, runs, rest_vars>>

\* lines 174-181: the loop takes a task that has completed, and appends its
\* record if it has one
ResultTaken ==
    /\ pc = "processing"
    /\ \E i \in DOMAIN requests :
          /\ requests[i].state \in { "result", "none" }
          /\ requests' = [requests EXCEPT ![i].state = "taken"]
          /\ silver_file' = IF requests[i].state = "result"
                            THEN AppendLine(silver_file,
                                            JsonLine(Extraction(requests[i].notam)))
                            ELSE silver_file
    /\ UNCHANGED <<pc, input_file, existing_ids, sent_log, runs, rest_vars>>

\* lines 183 and 229-247: every task was taken, and the run ends
RunEnds ==
    /\ pc = "processing"
    /\ \A i \in DOMAIN requests : requests[i].state = "taken"
    /\ pc' = "idle"
    /\ requests' = <<>>
    /\ UNCHANGED <<input_file, silver_file, existing_ids, sent_log, runs, rest_vars>>

\* the run is interrupted: what was not appended is lost
RunInterrupted ==
    /\ pc = "processing"
    /\ pc' = "idle"
    /\ requests' = <<>>
    /\ UNCHANGED <<input_file, silver_file, existing_ids, sent_log, runs, rest_vars>>

NextGenerate ==
    RunStarts \/ RequestReturns \/ ResultTaken \/ RunEnds \/ RunInterrupted

SpecGenerate == InitGenerate /\ [][NextGenerate]_vars

\* how many lines of the file record the id
TimesRecorded(file, id) ==
    Cardinality({ i \in DOMAIN file.lines :
                    file.lines[i].t = "json" /\ file.lines[i].value["notam_id"] = id })

\* C30 as stated: over any sequence of runs, interrupted ones included, no
\* request is sent for a NOTAM whose id is recorded in the output file, and
\* no id is appended again: every id is recorded at most once.
C30_NeverAgain ==
    /\ \A i \in DOMAIN sent_log : ~sent_log[i].recorded
    /\ \A id \in ExistingIds(silver_file) : TimesRecorded(silver_file, id) <= 1

=============================================================================
